---- MODULE Spec2Model ----
(***************************************************************************)
(* Model of crev's cache-gated summarization pipelines:                    *)
(*   crev/utils/cache.py   cache_file_check  (the stage executor)          *)
(*   crev/sum/sum_repo.py  summarize_repo, sum_repo (repository pipeline)  *)
(*   crev/sum/sum_pr.py    summarize_pr, sum_pr     (pull-request pipeline)*)
(*                                                                         *)
(* A Python str is a sequence of fragments (TLA+ strings); concatenation   *)
(* is \o and the empty str is <<>>.  A path is the str of its directory    *)
(* followed by the str of its file name.  The filesystem is a function     *)
(* from the paths of the files that exist to their text.                   *)
(***************************************************************************)
EXTENDS Integers, Sequences, FiniteSets, TLC

(***************************************************************************)
(* Bounds                                                                  *)
(***************************************************************************)
\* invocations of a batch driver in one behaviour
MaxInvocations == 2
\* direct calls of cache_file_check in one behaviour
MaxCalls == 2
\* largest commit count a repository reports
MaxCommit == 2

(***************************************************************************)
(* Python values                                                           *)
(***************************************************************************)
\* Python's None, as a producer result and as cache_file_check's return
None == [kind |-> "None"]

\* a str value
Str(s) == [kind |-> "str", s |-> s]

\* a dict value (json.loads result): keys to lists of file paths
Dict(d) == [kind |-> "dict", d |-> d]

\* a test that takes every value for true
AlwaysTruthy(s) == TRUE

\* truthiness of a str or list: only the empty one is falsy
Truthy(s) == Len(s) > 0

\* the decimal digits, for str(int)
Digit == <<"0", "1", "2", "3", "4", "5", "6", "7", "8", "9">>

RECURSIVE StrInt(_)
\* str(n) for a natural number: its decimal digits, most significant first
StrInt(n) == IF n < 10 THEN <<Digit[n + 1]>>
             ELSE StrInt(n \div 10) \o <<Digit[(n % 10) + 1]>>

(***************************************************************************)
(* JSON text: json.dumps and json.loads on the objects the pipeline        *)
(* stores.  The tokens of a JSON text are its fragments; commas and        *)
(* whitespace carry no information here and are left out.                  *)
(***************************************************************************)
\* the structural tokens of a JSON text
JsonPunct == {"{", "}", "[", "]", ":"}

\* the order in which json.dumps emits the keys of a dict
JsonKeys == <<"app", "test", "infra", "docs">>

RECURSIVE DumpMembers(_, _)
\* the members of dict d for the keys JsonKeys[i..], each as  key : [ items ]
DumpMembers(d, i) ==
    IF i > Len(JsonKeys) THEN <<>>
    ELSE (IF JsonKeys[i] \in DOMAIN d
          THEN <<JsonKeys[i], ":", "[">> \o d[JsonKeys[i]] \o <<"]">>
          ELSE <<>>) \o DumpMembers(d, i + 1)

\* json.dumps(d, indent=2) of a dict of lists of strings
JsonDumps(d) == <<"{">> \o DumpMembers(d, 1) \o <<"}">>

RECURSIVE ListEnd(_, _)
\* index of the "]" closing a list whose items start at i, or 0 if the
\* items are not all strings before the text ends
ListEnd(s, i) ==
    IF i > Len(s) THEN 0
    ELSE IF s[i] = "]" THEN i
    ELSE IF s[i] \in JsonPunct THEN 0
    ELSE ListEnd(s, i + 1)

RECURSIVE LoadMembers(_, _, _)
\* parse the members from index i up to the closing "}" at Len(s); the
\* result is [ok, d]; a repeated key keeps its last value, as json.loads
LoadMembers(s, i, d) ==
    IF i = Len(s) THEN [ok |-> TRUE, d |-> d]
    ELSE IF i + 3 > Len(s) THEN [ok |-> FALSE, d |-> d]
    ELSE IF s[i] \in JsonPunct \/ s[i + 1] # ":" \/ s[i + 2] # "["
         THEN [ok |-> FALSE, d |-> d]
    ELSE LET e == ListEnd(s, i + 3)
         IN IF e = 0 \/ e >= Len(s) THEN [ok |-> FALSE, d |-> d]
            ELSE LoadMembers(s, e + 1,
                   [k \in DOMAIN d \cup {s[i]} |->
                      IF k = s[i] THEN SubSeq(s, i + 3, e - 1) ELSE d[k]])

\* the dict with no keys
EmptyDict == [k \in {} |-> <<>>]

\* json.loads(s): [ok |-> TRUE, d |-> the dict], or ok = FALSE for a
\* JSONDecodeError
JsonLoads(s) ==
    IF Len(s) < 2 \/ s[1] # "{" \/ s[Len(s)] # "}"
    THEN [ok |-> FALSE, d |-> EmptyDict]
    ELSE LoadMembers(s, 2, EmptyDict)

(***************************************************************************)
(* File names and the filesystem                                           *)
(***************************************************************************)
\* the replacement fields a file name template can hold, with their names
Placeholder == [f \in {"{commit_count}", "{short_hash}", "{pr_number}"} |->
                  CASE f = "{commit_count}" -> "commit_count"
                    [] f = "{short_hash}" -> "short_hash"
                    [] f = "{pr_number}" -> "pr_number"]

\* a file name in which no replacement field is replaced
FormatIgnoringArgs(filename, format_args) == [ok |-> TRUE, s |-> filename]

RECURSIVE Format(_, _)
\* filename.format(**format_args): every replacement field is replaced by
\* the str of its argument; ok = FALSE is the KeyError of a missing one
Format(filename, format_args) ==
    IF filename = <<>> THEN [ok |-> TRUE, s |-> <<>>]
    ELSE LET f == Head(filename)
             rest == Format(Tail(filename), format_args)
         IN IF f \in DOMAIN Placeholder
            THEN IF Placeholder[f] \in DOMAIN format_args
                 THEN [ok |-> rest.ok, s |-> format_args[Placeholder[f]] \o rest.s]
                 ELSE [ok |-> FALSE, s |-> <<>>]
            ELSE [ok |-> rest.ok, s |-> <<f>> \o rest.s]

\* output_dir / filename
PathJoin(dir, filename) == dir \o <<"/">> \o filename

\* a check for the file that never finds it
ExistsNever(files, path) == FALSE

\* Path.exists()
Exists(files, path) == path \in DOMAIN files

\* Path.write_text(text): create or replace the file
WriteText(files, path, text) ==
    [p \in DOMAIN files \cup {path} |-> IF p = path THEN text ELSE files[p]]

(***************************************************************************)
(* The stage executor: crev/utils/cache.py                                 *)
(***************************************************************************)
\* a task that raises when it is run
Raise == [kind |-> "raise"]

\* cache_files_config.get(cache_key, default_filename), then
\* filename.format(**format_args) when format_args is not empty
CacheFilename(cache_files_config, cache_key, default_filename, format_args) ==
    LET filename == IF cache_key \in DOMAIN cache_files_config
                    THEN cache_files_config[cache_key]
                    ELSE default_filename
    IN IF DOMAIN format_args # {}
       THEN Format(filename, format_args)
       ELSE [ok |-> TRUE, s |-> filename]

\* lines 61-65: the file name the bypass loop looks for under a bypass
\* key: cache_files_config.get(bypass_key), formatted when format_args is
\* not empty; looked = FALSE when there is no (or an empty) configured name
\* and the key is passed over
BypassFilename(cache_files_config, bypass_key, format_args) ==
    IF bypass_key \in DOMAIN cache_files_config
       /\ Truthy(cache_files_config[bypass_key])
    THEN LET f == IF DOMAIN format_args # {}
                  THEN Format(cache_files_config[bypass_key], format_args)
                  ELSE [ok |-> TRUE, s |-> cache_files_config[bypass_key]]
         IN [looked |-> TRUE, ok |-> f.ok, s |-> f.s]
    ELSE [looked |-> FALSE, ok |-> TRUE, s |-> <<>>]

RECURSIVE BypassScan(_, _, _, _, _)
\* the loop over bypass_keys: "hit" at the first key whose configured file
\* exists, "raise" if formatting a configured name fails first, else "miss";
\* a key with no (or an empty) configured file name is passed over
BypassScan(files, output_dir, cache_files_config, bypass_keys, format_args) ==
    IF bypass_keys = <<>> THEN "miss"
    ELSE LET f == BypassFilename(cache_files_config, Head(bypass_keys),
                                 format_args)
             rest == BypassScan(files, output_dir, cache_files_config,
                                Tail(bypass_keys), format_args)
         IN IF ~f.looked THEN rest
            ELSE IF ~f.ok THEN "raise"
            ELSE IF Exists(files, PathJoin(output_dir, f.s)) THEN "hit"
            ELSE rest

\* a parser whose result is lost
ParseLosesContent(parser, content) == [ok |-> TRUE, value |-> None]

\* parser(content) if parser else content; parser is "json" (json.loads)
\* or "raw" (no parser).  json.loads raises on text that is not JSON
Parse(parser, content) ==
    IF parser = "json"
    THEN LET j == JsonLoads(content)
         IN IF j.ok THEN [ok |-> TRUE, value |-> Dict(j.d)]
            ELSE [ok |-> FALSE, value |-> None]
    ELSE [ok |-> TRUE, value |-> Str(content)]

\* a result that is never written
PersistDropsWrite(files, cache_file, result) == files

\* a result that is written whatever it is, None as str(None)
PersistWritesNone(files, cache_file, result) ==
    WriteText(files, cache_file,
              IF result.kind = "None" THEN <<"None">> ELSE result.s)

\* lines 74-79: the result is written unless it is None
Persist(files, cache_file, result) ==
    IF result.kind # "None" THEN WriteText(files, cache_file, result.s)
    ELSE files

\* what cache_file_check reports: how it ended, the value it returned, the
\* filesystem it left, whether it ran the task and whether it wrote a file
Report(outcome, value, files, ran, wrote) ==
    [outcome |-> outcome, value |-> value, files |-> files,
     ran |-> ran, wrote |-> wrote]

\* the bypass files looked at before the cache file itself
LookupBypassFirst(cached, scan) ==
    IF scan = "hit" THEN "skip"
    ELSE IF cached THEN "load"
    ELSE IF scan = "raise" THEN "raise"
    ELSE "run"

\* a missing cache file below an existing bypass file taken as an error
LookupStrict(cached, scan) ==
    IF cached THEN "load"
    ELSE IF scan = "miss" THEN "run"
    ELSE "raise"

\* the order of lines 52-72: the cache file, then the bypass files, then
\* the task
Lookup(cached, scan) ==
    IF cached THEN "load"
    ELSE IF scan = "hit" THEN "skip"
    ELSE IF scan = "raise" THEN "raise"
    ELSE "run"

\* a failing task that leaves an empty cache file behind
TaskRaisedLeavesFile(files, cache_file) ==
    Report("Raised", None, WriteText(files, cache_file, <<>>), TRUE, TRUE)

\* line 72 raises: nothing after it runs, the exception leaves the function
TaskRaised(files, cache_file) == Report("Raised", None, files, TRUE, FALSE)

\* cache_file_check(...); task is the result the task gives if it is run
\* (Raise, None or a str).  Outcomes: "Cached", "Skipped", "Computed", and
\* "Raised" for an exception leaving the function
CacheFileCheck(files, output_dir, cache_files_config, cache_key, task, default_filename, bypass_keys, parser, format_args) ==
    LET fn == CacheFilename(cache_files_config, cache_key, default_filename,
                            format_args)
        cache_file == PathJoin(output_dir, fn.s)
        scan == BypassScan(files, output_dir, cache_files_config, bypass_keys,
                           format_args)
        todo == Lookup(Exists(files, cache_file), scan)
    IN IF ~fn.ok THEN Report("Raised", None, files, FALSE, FALSE)
       ELSE IF todo = "load"
       THEN LET c == Parse(parser, files[cache_file])
            IN IF c.ok THEN Report("Cached", c.value, files, FALSE, FALSE)
               ELSE Report("Raised", None, files, FALSE, FALSE)
       ELSE IF todo = "skip" THEN Report("Skipped", None, files, FALSE, FALSE)
       ELSE IF todo = "raise" THEN Report("Raised", None, files, FALSE, FALSE)
       ELSE IF task.kind = "raise"
       THEN TaskRaised(files, cache_file)
       ELSE LET after == Persist(files, cache_file, task)
            IN IF parser = "json"
               THEN IF task.kind = "None"
                    THEN Report("Raised", None, after, TRUE, FALSE)
                    ELSE LET c == Parse(parser, task.s)
                         IN IF c.ok
                            THEN Report("Computed", c.value, after, TRUE, TRUE)
                            ELSE Report("Raised", None, after, TRUE, TRUE)
               ELSE Report("Computed", task, after, TRUE, task.kind # "None")

(***************************************************************************)
(* The repository pipeline: crev/sum/sum_repo.py                           *)
(***************************************************************************)
\* categories = ["app", "test", "infra"]
Categories == <<"app", "test", "infra">>

\* category.title()
Title(category) ==
    CASE category = "app" -> "App"
      [] category = "test" -> "Test"
      [] category = "infra" -> "Infra"

\* the cache keys of the repository pipeline, in pipeline order
StageKeys == <<"categorization_context", "categorization_result",
               "structure_context", "structure_result",
               "app_context", "app_result", "test_context", "test_result",
               "infra_context", "infra_result", "output">>

\* the default_filename each stage passes to cache_file_check
DefaultFilename(cache_key) ==
    CASE cache_key = "categorization_context" ->
           <<"sum_repo.categorization.context.md">>
      [] cache_key = "categorization_result" -> <<"sum_repo.categorization.json">>
      [] cache_key = "structure_context" -> <<"sum_repo.structure.context.md">>
      [] cache_key = "structure_result" -> <<"sum_repo.structure.md">>
      [] cache_key = "app_context" -> <<"sum_repo.", "app", ".context.md">>
      [] cache_key = "app_result" -> <<"sum_repo.", "app", ".md">>
      [] cache_key = "test_context" -> <<"sum_repo.", "test", ".context.md">>
      [] cache_key = "test_result" -> <<"sum_repo.", "test", ".md">>
      [] cache_key = "infra_context" -> <<"sum_repo.", "infra", ".context.md">>
      [] cache_key = "infra_result" -> <<"sum_repo.", "infra", ".md">>
      [] cache_key = "output" ->
           <<"sum.repo.", "{commit_count}", ".", "{short_hash}", ".ai.md">>

\* f"{category}_context" and f"{category}_result"
ContextKey(category) ==
    CASE category = "app" -> "app_context"
      [] category = "test" -> "test_context"
      [] category = "infra" -> "infra_context"

ResultKey(category) ==
    CASE category = "app" -> "app_result"
      [] category = "test" -> "test_result"
      [] category = "infra" -> "infra_result"

RECURSIVE LaterCategoryKeys(_)
\* for later_cat in all_categories[cat_idx + 1:]: its context key, then
\* its result key
LaterCategoryKeys(cat_idx) ==
    IF cat_idx >= Len(Categories) THEN <<>>
    ELSE <<ContextKey(Categories[cat_idx + 1]), ResultKey(Categories[cat_idx + 1])>>
         \o LaterCategoryKeys(cat_idx + 1)

\* the bypass_keys each stage passes to cache_file_check; cat_idx is the
\* 1-based position of the category for the two category stages
BypassKeys(cache_key, cat_idx) ==
    CASE cache_key = "categorization_context" -> SubSeq(StageKeys, 2, 11)
      [] cache_key = "categorization_result" -> SubSeq(StageKeys, 3, 11)
      [] cache_key = "structure_context" -> SubSeq(StageKeys, 4, 11)
      [] cache_key = "structure_result" -> SubSeq(StageKeys, 5, 11)
      [] cache_key \in {"app_context", "test_context", "infra_context"} ->
           <<ResultKey(Categories[cat_idx])>> \o LaterCategoryKeys(cat_idx)
           \o <<"output">>
      [] cache_key \in {"app_result", "test_result", "infra_result"} ->
           LaterCategoryKeys(cat_idx) \o <<"output">>
      [] cache_key = "output" -> <<>>

\* a shared output directory, whatever the unit
OutputDirShared(r) == <<"pullrequests", "/", "sum">>

\* Path("pullrequests") / org / repo_name / "sum"
OutputDir(r) == <<"pullrequests", "/", r.org, "/", r.name, "/", "sum">>

\* {"commit_count": commit_count, "short_hash": short_hash}, each value as
\* str.format renders it
FormatArgs(commit_count, short_hash) ==
    [a \in {"commit_count", "short_hash"} |->
        IF a = "commit_count" THEN StrInt(commit_count) ELSE <<short_hash>>]

\* file_categories.get(category, [])
GetFiles(file_categories, category) ==
    IF category \in DOMAIN file_categories THEN file_categories[category]
    ELSE <<>>

RECURSIVE Find(_, _, _)
\* str.find(ch): the least index >= i holding ch, 0 if there is none
\* (indices are 1-based here, so 0 stands for Python's -1)
Find(s, ch, i) ==
    IF i > Len(s) THEN 0
    ELSE IF s[i] = ch THEN i
    ELSE Find(s, ch, i + 1)

RECURSIVE RFind(_, _, _)
\* str.rfind(ch): the greatest index <= i holding ch, 0 if there is none
RFind(s, ch, i) ==
    IF i < 1 THEN 0
    ELSE IF s[i] = ch THEN i
    ELSE RFind(s, ch, i - 1)

\* the fallback of _parse_file_categories
EmptyCategories == [c \in {"app", "test", "infra"} |-> <<>>]

\* a parse without the fallback: the whole reply must be the JSON object
ParseWithoutFallback(llm_response) == JsonLoads(llm_response).d

\* _parse_file_categories(llm_response): the JSON object between the first
\* "{" and the last "}", or three empty lists
ParseFileCategories(llm_response) ==
    LET start_idx == Find(llm_response, "{", 1)
        end_idx == RFind(llm_response, "}", Len(llm_response))
    IN IF start_idx # 0 /\ end_idx >= start_idx
       THEN LET j == JsonLoads(SubSeq(llm_response, start_idx, end_idx))
            IN IF j.ok THEN j.d ELSE EmptyCategories
       ELSE EmptyCategories

(***************************************************************************)
(* Collaborators at the boundary: collectors, the LLM, git                 *)
(***************************************************************************)
\* git rev-parse --short=10 HEAD for the commit with this count
ShortHash(commit_count) == IF commit_count = 1 THEN "abc1234567" ELSE "def7654321"

\* the commit counts git may report for a repository
CommitCounts == 1..MaxCommit

\* collect_file_category(repo_path): the file listing of the checkout
CollectFileCategory(r, fa) ==
    <<"# Repository Files for Categorization", r.name, "@">> \o fa["commit_count"]

\* collect_structure_context(file_categories): one heading per category
\* with its number of files
CollectStructureContext(file_categories) ==
    <<"# Repository File Organization">>
    \o <<"App Files">> \o StrInt(Len(GetFiles(file_categories, "app")))
    \o <<"Test Files">> \o StrInt(Len(GetFiles(file_categories, "test")))
    \o <<"Infra Files">> \o StrInt(Len(GetFiles(file_categories, "infra")))

\* collect_repo_context(repo_path, files, category=category)
CollectRepoContext(r, file_list, category) ==
    <<"# ", Title(category), " Files">> \o file_list

\* the replies the LLM may give to the categorization prompt: two with a
\* JSON object inside other text, one without "{", one without "}" after
\* the "{", one whose text from "{" to "}" is not JSON, and one that is a
\* JSON object with the app key alone
CategorizationReplies ==
    { <<"Here you go:", "{", "app", ":", "[", "main.py", "]",
        "test", ":", "[", "]", "infra", ":", "[", "Dockerfile", "]", "}">>,
      <<"{", "app", ":", "[", "main.py", "]",
        "test", ":", "[", "test_main.py", "]",
        "infra", ":", "[", "Dockerfile", "]", "}", "Done.">>,
      <<"I cannot categorize these files.">>,
      <<"}", "Sure:", "{", "app", ":", "[", "main.py", "]">>,
      <<"The files are", "{", "app", ":", "[", "main.py", "}", "as asked">>,
      <<"{", "app", ":", "[", "main.py", "]", "}">> }

\* the reply of the LLM to any other prompt: free text that differs from
\* one invocation of the command to the next
LlmReply(prompt, n) == <<"LLM reply #">> \o StrInt(n) \o <<" to: ">> \o prompt

\* f"{prompt_template}\n\n{context}"
FullPrompt(prompt_template, context) == prompt_template \o <<"\n\n">> \o context

\* the text of each prompt file
PromptTemplate(name) == <<"prompt:", name>>

(***************************************************************************)
(* State                                                                   *)
(***************************************************************************)
VARIABLES
    files,                 \* the filesystem under pullrequests/
    cache_files_config,    \* config["cache_files"]["sum_repo"]
    repos,                 \* config["repos"]
    limit,                 \* how many command invocations the behaviour has
    inv,                   \* command invocations started so far
    pc,                    \* where the running command is
    context_only,          \* the --context-only flag of the running command
    queue,                 \* the units the running command has yet to start
    repo,                  \* the unit being summarized
    format_args,           \* its format_args
    file_listing_context,  \* locals of summarize_repo
    file_categories,
    structure_context,
    structure_summary,
    cat_idx,               \* position of the category loop, 1-based
    pr_number,             \* the pull request being summarized, 0 if none
    pr_context,            \* local of summarize_pr
    category_context,
    category_summaries,
    trace,                 \* what the running command has done so far
    files0,                \* the filesystem when the running command began
    exited,                \* how the last command ended: "", "done", "raised"
    last,                  \* the command before the running one
    call,                  \* the last direct call of cache_file_check
    race,                  \* two concurrent calls of cache_file_check
    workspace,             \* whether configs.json and each prompt file exist
    selectors,             \* the arguments a command may be given
    selected               \* the arguments of the running command

vars == <<files, cache_files_config, repos, limit, inv, pc, context_only,
          pr_number, pr_context,
          queue, repo, format_args, file_listing_context, file_categories,
          structure_context, structure_summary, cat_idx, category_context,
          category_summaries, trace, files0, exited, last, call, race,
          workspace, selectors, selected>>

\* the configuration, and the records of direct and concurrent calls of
\* cache_file_check: what no command changes
env == <<cache_files_config, repos, limit, call, race, workspace, selectors>>

\* the locals of summarize_pr
prLocals == <<pr_number, pr_context>>

\* the locals of summarize_repo
repoLocals == <<file_listing_context, file_categories, structure_context,
                structure_summary, cat_idx, category_context,
                category_summaries>>

\* the filesystem with no file
NoFiles == [p \in {} |-> <<>>]

\* a configuration that names the file of every stage
FullConfig == [k \in {StageKeys[i] : i \in 1..Len(StageKeys)} |-> DefaultFilename(k)]

\* a configuration without a cache_files section, as in tests/sum
EmptyConfig == [k \in {} |-> <<>>]

\* the cache_files sections a deployment may have
Configs == {FullConfig, EmptyConfig}

\* a configs.json with one repository, and one with two
OneRepo == <<[org |-> "acme", name |-> "web", pull_requests |-> <<1, 2>>]>>

TwoRepos == <<[org |-> "acme", name |-> "web", pull_requests |-> <<1, 2>>],
              [org |-> "acme", name |-> "api", pull_requests |-> <<>>]>>

\* the arguments of the commands in the runs that are not about
\* selection: sum_repo() without a repository, sum_pr("acme") without a
\* pull request number
DefaultSelectors == [repo |-> {""}, pr |-> {"acme"}, prs |-> {0}]

\* every kind of argument: omitted (""; 0 for the number), the literal ".",
\* the configured org, configured repository names, a name and a number
\* that are not configured
AllSelectors ==
    [repo |-> {"", ".", "acme", "web", "api", "nosuch"},
     pr |-> {".", "acme", "web", "nosuch"},
     prs |-> {0, 1, 3}]

\* no command yet
NoSelection == [command |-> "", repo_name |-> "", pr_number |-> 0]

\* no unit
NoRepo == [org |-> "", name |-> "", pull_requests |-> <<>>]

\* no format_args
NoArgs == [a \in {} |-> <<>>]

\* no direct call of cache_file_check yet
NoCall == [key |-> "", task |-> None, args |-> NoArgs, parser |-> "raw",
           report |-> Report("", None, NoFiles, FALSE, FALSE)]

\* the prompts the two commands load, by their key in config["prompts"]
PromptNames == {"sum_repo_file_category", "sum_repo_structure", "sum_repo_app",
                "sum_repo_test", "sum_repo_infra", "sum_pr"}

\* the input directories of the configured units: repos/<org>/<name> of
\* each repository, pullrequests/<repo_name>/<n> of each pull request
AllInputs == [repos |-> {TwoRepos[i].name : i \in DOMAIN TwoRepos},
              prs |-> {OneRepo[1].pull_requests[i] :
                         i \in DOMAIN OneRepo[1].pull_requests}]

\* a workspace with configs.json, every prompt file and every input
\* directory
FullWorkspace == [configs |-> TRUE, prompts |-> PromptNames, inputs |-> AllInputs]

\* the workspaces a command may be started in: complete, without
\* configs.json, or without one of the prompt files
Workspaces ==
    {FullWorkspace, [FullWorkspace EXCEPT !.configs = FALSE]}
    \cup {[FullWorkspace EXCEPT !.prompts = PromptNames \ {name}] : name \in PromptNames}

\* the workspaces in which any of the input directories may be absent
InputWorkspaces ==
    {[FullWorkspace EXCEPT !.inputs = [repos |-> rs, prs |-> ps]] :
       rs \in SUBSET AllInputs.repos, ps \in SUBSET AllInputs.prs}

\* no concurrent call of cache_file_check
NoRace == [key |-> "", proc |-> <<>>, writes |-> <<>>]

\* one entry of the trace: a stage invocation of a unit and how it ended
Event(r, args, key, report) ==
    [repo |-> r, args |-> args, key |-> key, outcome |-> report.outcome,
     ran |-> report.ran, wrote |-> report.wrote]

\* the trace entry of summarize_repo being entered for a unit
Entered(r, args) ==
    [repo |-> r, args |-> args, key |-> "summarize_repo",
     outcome |-> "Entered", ran |-> FALSE, wrote |-> FALSE]

\* the trace entry of a unit that is passed over because its input
\* directory is not there
NotFound(r, args, key) ==
    [repo |-> r, args |-> args, key |-> key,
     outcome |-> "NotFound", ran |-> FALSE, wrote |-> FALSE]

\* what is kept of a command once the next one begins
Summary(t, co, ex, f0, f1) ==
    [trace |-> t, context_only |-> co, exited |-> ex, before |-> f0,
     after |-> f1]

\* the locals of summarize_repo before it has assigned them
LocalsCleared ==
    /\ file_listing_context' = <<>>
    /\ file_categories' = EmptyDict
    /\ structure_context' = <<>>
    /\ structure_summary' = <<>>
    /\ cat_idx' = 0
    /\ category_context' = <<>>
    /\ category_summaries' = EmptyDict
    /\ pr_number' = 0
    /\ pr_context' = <<>>

TypeOK ==
    /\ pc \in {"idle", "loop", "phase1a", "phase1b", "phase2a", "phase2b",
               "phase3a", "phase3b", "combine", "pr_loop", "pr_llm"}
    /\ inv \in 0..limit
    /\ context_only \in BOOLEAN
    /\ exited \in {"", "done", "raised"}
    /\ cat_idx \in 0..3

\* the state common to every initial state
InitCommon ==
    /\ cache_files_config \in Configs
    /\ inv = 0
    /\ pc = "idle"
    /\ context_only = FALSE
    /\ queue = <<>>
    /\ repo = NoRepo
    /\ format_args = NoArgs
    /\ file_listing_context = <<>>
    /\ file_categories = EmptyDict
    /\ structure_context = <<>>
    /\ structure_summary = <<>>
    /\ cat_idx = 0
    /\ category_context = <<>>
    /\ category_summaries = EmptyDict
    /\ pr_number = 0
    /\ pr_context = <<>>
    /\ trace = <<>>
    /\ exited = ""
    /\ last = Summary(<<>>, FALSE, "", NoFiles, NoFiles)
    /\ call = NoCall
    /\ race = NoRace
    /\ selected = NoSelection

\* a fresh workspace with one configured repository
Init ==
    /\ InitCommon
    /\ files = NoFiles
    /\ files0 = NoFiles
    /\ repos = OneRepo
    /\ limit = MaxInvocations
    /\ workspace = FullWorkspace
    /\ selectors = DefaultSelectors

\* get_repos_from_config(config, org, repo_name) of crev/sum/util.py: "."
\* and None (here "") select everything; ok = FALSE is SystemExit(1)
GetReposFromConfig(all_repos, org, repo_name) ==
    LET by_org == IF org \in {"", "."} THEN all_repos
                  ELSE SelectSeq(all_repos, LAMBDA r : r.org = org)
        by_name == IF repo_name \in {"", "."} THEN by_org
                   ELSE SelectSeq(by_org, LAMBDA r : r.name = repo_name)
    IN IF org \notin {"", "."} /\ by_org = <<>> THEN [ok |-> FALSE, repos |-> <<>>]
       ELSE IF repo_name \notin {"", "."} /\ by_name = <<>>
       THEN [ok |-> FALSE, repos |-> <<>>]
       ELSE [ok |-> TRUE, repos |-> by_name]

(***************************************************************************)
(* Actions of the repository pipeline                                      *)
(***************************************************************************)
\* load_configs or load_prompt_file finds no file: SystemExit(1) ends the
\* command where it is
Aborted ==
    /\ pc' = "idle"
    /\ queue' = <<>>
    /\ exited' = "raised"

\* sum_repo(repo_name, context_only) begins: the configuration is loaded
\* and the repositories get_repos_from_config returns are queued; repo_name
\* is handed to it in the place of org, and SystemExit ends the command
SumRepo ==
    /\ pc = "idle"
    /\ inv < limit
    /\ \E co \in BOOLEAN : context_only' = co
    /\ inv' = inv + 1
    /\ \E repo_name \in selectors.repo :
         LET found == GetReposFromConfig(repos, repo_name, "")
         IN /\ selected' = [command |-> "repo", repo_name |-> repo_name,
                            pr_number |-> 0]
            /\ IF workspace.configs /\ found.ok
               THEN pc' = "loop" /\ queue' = found.repos /\ exited' = ""
               ELSE Aborted
    /\ repo' = NoRepo
    /\ format_args' = NoArgs
    /\ LocalsCleared
    /\ trace' = <<>>
    /\ files0' = files
    /\ last' = Summary(trace, context_only, exited, files0, files)
    /\ UNCHANGED <<files, env>>

\* a unit is taken for one that has its input directory whatever is there
RepoPathAssumed(r) == TRUE

\* lines 496-508: repos/ and repos/<org>/<repo_name> exist
RepoPathExists(r) == r.name \in workspace.inputs.repos

\* summarize_repo is entered for the next repository: lines 493-521; without
\* the checkout it returns at once
SummarizeRepo ==
    /\ pc = "loop"
    /\ queue # <<>>
    /\ queue' = Tail(queue)
    /\ IF RepoPathExists(Head(queue))
       THEN /\ repo' = Head(queue)
            /\ \E commit_count \in CommitCounts :
                 /\ format_args' = FormatArgs(commit_count, ShortHash(commit_count))
                 /\ trace' = Append(trace, Entered(Head(queue), format_args'))
            /\ pc' = "phase1a"
       ELSE /\ repo' = NoRepo
            /\ format_args' = NoArgs
            /\ trace' = Append(trace, NotFound(Head(queue), NoArgs, "summarize_repo"))
            /\ pc' = "loop"
    /\ LocalsCleared
    /\ UNCHANGED <<files, env, inv, selected, context_only, files0, exited, last>>

\* the loop of sum_repo is over: click.echo("Done.")
SumRepoDone ==
    /\ pc = "loop"
    /\ queue = <<>>
    /\ pc' = "idle"
    /\ exited' = "done"
    /\ UNCHANGED <<files, env, inv, selected, context_only, queue, repo, format_args,
                   repoLocals, prLocals, trace, files0, last>>

\* summarize_repo returns to the loop of sum_repo
Return ==
    /\ pc' = "loop"
    /\ repo' = NoRepo
    /\ format_args' = NoArgs
    /\ LocalsCleared
    /\ UNCHANGED <<queue, exited>>

\* an exception leaves summarize_repo; sum_repo has no handler around the
\* call (lines 638-645), so it leaves sum_repo too and ends the command
Propagate ==
    /\ pc' = "idle"
    /\ exited' = "raised"
    /\ repo' = NoRepo
    /\ format_args' = NoArgs
    /\ LocalsCleared
    /\ UNCHANGED queue

\* the call of cache_file_check a stage of the running unit makes
Stage(cache_key, idx, task, parser) ==
    CacheFileCheck(files, OutputDir(repo), cache_files_config, cache_key, task,
                   DefaultFilename(cache_key), BypassKeys(cache_key, idx),
                   parser, format_args)

\* the effect of a stage on the filesystem and the trace
Staged(cache_key, report) ==
    /\ files' = report.files
    /\ trace' = Append(trace, Event(repo, format_args, cache_key, report))
    /\ UNCHANGED <<env, inv, selected, context_only, files0, last>>

\* a run that goes on to the LLM stages whatever its mode
ReturnsIgnoringMode(value, co) == value.kind = "None"

\* lines 528-534: summarize_repo returns after phase 1a when the stage was
\* skipped or the run is context-only
ReturnsAfterContext(value, co) == value.kind = "None" \/ co

\* Phase 1a, lines 523-534
Phase1a ==
    /\ pc = "phase1a"
    /\ \E task \in {Raise, Str(CollectFileCategory(repo, format_args))} :
         LET r == Stage("categorization_context", 0, task, "raw")
         IN /\ Staged("categorization_context", r)
            /\ IF r.outcome = "Raised" THEN Propagate
               ELSE IF ReturnsAfterContext(r.value, context_only) THEN Return
               ELSE /\ pc' = "phase1b"
                    /\ file_listing_context' = r.value.s
                    /\ UNCHANGED <<queue, repo, format_args, file_categories,
                                   structure_context, structure_summary,
                                   cat_idx, category_context,
                                   category_summaries, prLocals, exited>>

\* what categorize_task meets before it parses: load_prompt_file or the
\* LLM call raises, or the LLM returns a reply
CategorizationOutcomes ==
    IF "sum_repo_file_category" \in workspace.prompts
    THEN {Raise} \cup {Str(reply) : reply \in CategorizationReplies}
    ELSE {Raise}

\* categorize_task, lines 171-181, given what its LLM call does: the dumped
\* categories of the reply, or the exception
CategorizeTask(outcome) ==
    IF outcome.kind = "raise" THEN Raise
    ELSE Str(JsonDumps(ParseFileCategories(outcome.s)))

\* the results categorize_task can have
CategorizeTasks == {CategorizeTask(o) : o \in CategorizationOutcomes}

\* the trace entry of the categorization stage: when the task ran and the
\* LLM replied, the entry also holds the reply
Categorization(event, outcome) ==
    IF event.ran /\ outcome.kind = "str"
    THEN [f \in DOMAIN event \cup {"reply"} |->
            IF f = "reply" THEN outcome.s ELSE event[f]]
    ELSE event

\* Phase 1b, lines 541-551
Phase1b ==
    /\ pc = "phase1b"
    /\ \E outcome \in CategorizationOutcomes :
         LET r == Stage("categorization_result", 0, CategorizeTask(outcome), "json")
         IN /\ files' = r.files
            /\ trace' = Append(trace,
                   Categorization(Event(repo, format_args,
                                        "categorization_result", r), outcome))
            /\ UNCHANGED <<env, inv, selected, context_only, files0, last>>
            /\ IF r.outcome = "Raised" THEN Propagate
               ELSE IF r.value.kind = "None" THEN Return
               ELSE /\ pc' = "phase2a"
                    /\ file_categories' = r.value.d
                    /\ UNCHANGED <<queue, repo, format_args,
                                   file_listing_context, structure_context,
                                   structure_summary, cat_idx,
                                   category_context, category_summaries,
                                   prLocals, exited>>

\* Phase 2a, lines 553-559
Phase2a ==
    /\ pc = "phase2a"
    /\ \E task \in {Raise, Str(CollectStructureContext(file_categories))} :
         LET r == Stage("structure_context", 0, task, "raw")
         IN /\ Staged("structure_context", r)
            /\ IF r.outcome = "Raised" THEN Propagate
               ELSE IF r.value.kind = "None" THEN Return
               ELSE /\ pc' = "phase2b"
                    /\ structure_context' = r.value.s
                    /\ UNCHANGED <<queue, repo, format_args,
                                   file_listing_context, file_categories,
                                   structure_summary, cat_idx,
                                   category_context, category_summaries,
                                   prLocals, exited>>

\* the results an LLM-backed task can have: the reply, or an exception;
\* load_prompt_file, the first call of the task, raises when the prompt
\* file is not there
LlmTasks(prompt_name, context) ==
    IF prompt_name \in workspace.prompts
    THEN {Raise, Str(LlmReply(FullPrompt(PromptTemplate(prompt_name), context), inv))}
    ELSE {Raise}

\* Phase 2b, lines 561-576
Phase2b ==
    /\ pc = "phase2b"
    /\ \E task \in LlmTasks("sum_repo_structure", structure_context) :
         LET r == Stage("structure_result", 0, task, "raw")
         IN /\ Staged("structure_result", r)
            /\ IF r.outcome = "Raised" THEN Propagate
               ELSE IF r.value.kind = "None" THEN Return
               ELSE /\ pc' = "phase3a"
                    /\ structure_summary' = r.value.s
                    /\ cat_idx' = 1
                    /\ category_summaries' = EmptyDict
                    /\ UNCHANGED <<queue, repo, format_args,
                                   file_listing_context, file_categories,
                                   structure_context, category_context,
                                   prLocals, exited>>

\* the for loop of lines 578-603 moves to the next category, or to the
\* combine step after the last one
NextCategory ==
    /\ IF cat_idx = Len(Categories)
       THEN pc' = "combine" /\ cat_idx' = 0
       ELSE pc' = "phase3a" /\ cat_idx' = cat_idx + 1
    /\ category_context' = <<>>
    /\ UNCHANGED <<queue, repo, format_args, file_listing_context,
                   file_categories, structure_context, structure_summary,
                   prLocals, exited>>

\* Phase 3a, lines 579-590 with 329-356: a category without files is
\* passed over before cache_file_check is called
Phase3a ==
    /\ pc = "phase3a"
    /\ LET category == Categories[cat_idx]
           file_list == GetFiles(file_categories, category)
       IN IF ~Truthy(file_list)
          THEN /\ NextCategory
               /\ UNCHANGED <<files, trace, env, inv, selected, context_only, files0,
                              last, category_summaries>>
          ELSE \E task \in {Raise, Str(CollectRepoContext(repo, file_list, category))} :
                 LET r == Stage(ContextKey(category), cat_idx, task, "raw")
                 IN /\ Staged(ContextKey(category), r)
                    /\ IF r.outcome = "Raised" THEN Propagate
                       ELSE IF r.value.kind = "None"
                       THEN NextCategory /\ UNCHANGED category_summaries
                       ELSE /\ pc' = "phase3b"
                            /\ category_context' = r.value.s
                            /\ UNCHANGED <<queue, repo, format_args,
                                           file_listing_context,
                                           file_categories, structure_context,
                                           structure_summary, cat_idx,
                                           category_summaries, prLocals,
                                           exited>>

\* f"sum_repo_{category}"
CategoryPrompt(category) ==
    CASE category = "app" -> "sum_repo_app"
      [] category = "test" -> "sum_repo_test"
      [] category = "infra" -> "sum_repo_infra"

\* Phase 3b, lines 592-603
Phase3b ==
    /\ pc = "phase3b"
    /\ LET category == Categories[cat_idx]
       IN \E task \in LlmTasks(CategoryPrompt(category), category_context) :
            LET r == Stage(ResultKey(category), cat_idx, task, "raw")
            IN /\ Staged(ResultKey(category), r)
               /\ IF r.outcome = "Raised" THEN Propagate
                  ELSE /\ NextCategory
                       /\ category_summaries' =
                            IF r.value.kind = "None" THEN category_summaries
                            ELSE [c \in DOMAIN category_summaries \cup {category} |->
                                    IF c = category THEN r.value.s
                                    ELSE category_summaries[c]]

RECURSIVE Join(_, _)
\* sep.join(parts)
Join(parts, sep) ==
    IF parts = <<>> THEN <<>>
    ELSE IF Len(parts) = 1 THEN parts[1]
    ELSE parts[1] \o sep \o Join(Tail(parts), sep)

\* a report without any category section
CategoryPartsNone(summaries, idx) == <<>>

RECURSIVE CategoryParts(_, _)
\* lines 453-457: heading, summary and rule of each category from the
\* idx-th on that has a summary
CategoryParts(summaries, idx) ==
    IF idx > Len(Categories) THEN <<>>
    ELSE (IF Categories[idx] \in DOMAIN summaries
          THEN << <<"## ", Title(Categories[idx]), " Analysis\n">>,
                  summaries[Categories[idx]],
                  <<"\n---\n">> >>
          ELSE <<>>) \o CategoryParts(summaries, idx + 1)

\* combine_task, lines 440-459
CombineTask(repo_name, args, summary, summaries) ==
    Join(<< <<"# Repository Summary: ", repo_name>>,
            <<"\n*Generated from commit #">> \o args["commit_count"]
               \o <<" (">> \o args["short_hash"] \o <<")*\n">>,
            <<"---\n">>,
            <<"## Repository Structure\n">>,
            summary,
            <<"\n---\n">> >> \o CategoryParts(summaries, 1),
         <<"\n">>)

\* Combine Output, lines 605-615
CombineOutput ==
    /\ pc = "combine"
    /\ LET task == Str(CombineTask(repo.name, format_args, structure_summary,
                                   category_summaries))
           r == Stage("output", 0, task, "raw")
       IN /\ Staged("output", r)
          /\ IF r.outcome = "Raised" THEN Propagate ELSE Return

\* the steps of the repository command
NextRepo ==
    \/ SumRepo
    \/ SummarizeRepo
    \/ SumRepoDone
    \/ Phase1a
    \/ Phase1b
    \/ Phase2a
    \/ Phase2b
    \/ Phase3a
    \/ Phase3b
    \/ CombineOutput

Spec == Init /\ [][NextRepo]_vars

(***************************************************************************)
(* The pull-request pipeline: crev/sum/sum_pr.py                           *)
(***************************************************************************)
\* Path("pullrequests") / repo_name / str(pr_number)
PrDir(repo_name, n) == <<"pullrequests", "/", repo_name, "/">> \o StrInt(n)

\* pr_dir / f"summary.pr.{pr_number}.ai.txt"
PrOutputFile(repo_name, n) ==
    PathJoin(PrDir(repo_name, n), <<"summary.pr.">> \o StrInt(n) \o <<".ai.txt">>)

\* pr_dir / "sum" / "sum.context.md"
PrContextFile(repo_name, n) ==
    PathJoin(PathJoin(PrDir(repo_name, n), <<"sum">>), <<"sum.context.md">>)

\* collect_pr_context(pr_dir): the diff and the before/after sections
CollectPrContext(repo_name, n) ==
    <<"# Attachments\n", "## Git Diff\n", repo_name, "#">> \o StrInt(n)

\* the trace entry of a step of summarize_pr
PrEvent(r, n, key, outcome, ran, wrote) ==
    [repo |-> r, args |-> [a \in {"pr_number"} |-> StrInt(n)], key |-> key,
     outcome |-> outcome, ran |-> ran, wrote |-> wrote]

\* sum_pr(repo_name, pr_number=None, context_only) begins: the first
\* repository that get_repos_from_config returns supplies the pull requests;
\* repo_name is handed to get_repos_from_config in the place of org; the
\* configuration and the prompt are loaded before the loop
SumPr ==
    /\ pc = "idle"
    /\ inv < limit
    /\ \E co \in BOOLEAN : context_only' = co
    /\ \E repo_name \in selectors.pr : \E n \in selectors.prs :
         LET found == GetReposFromConfig(repos, repo_name, "")
             pull_requests == found.repos[1].pull_requests
         IN /\ selected' = [command |-> "pr", repo_name |-> repo_name,
                            pr_number |-> n]
            /\ IF /\ workspace.configs
                  /\ found.ok
                  /\ n # 0 => \E i \in DOMAIN pull_requests : pull_requests[i] = n
                  /\ "sum_pr" \in workspace.prompts
               THEN /\ repo' = [found.repos[1] EXCEPT !.name = repo_name]
                    /\ queue' = IF n = 0 THEN pull_requests ELSE <<n>>
                    /\ pc' = "pr_loop"
                    /\ exited' = ""
               ELSE Aborted /\ repo' = NoRepo
    /\ inv' = inv + 1
    /\ format_args' = NoArgs
    /\ LocalsCleared
    /\ trace' = <<>>
    /\ files0' = files
    /\ last' = Summary(trace, context_only, exited, files0, files)
    /\ UNCHANGED <<files, env>>

\* summarize_pr returns to the loop of sum_pr
PrReturn ==
    /\ pc' = "pr_loop"
    /\ pr_number' = 0
    /\ pr_context' = <<>>
    /\ UNCHANGED <<queue, repo, exited>>

\* an exception leaves summarize_pr and, sum_pr having no handler around
\* the call (lines 210-215), ends the command
PrPropagate ==
    /\ pc' = "idle"
    /\ exited' = "raised"
    /\ pr_number' = 0
    /\ pr_context' = <<>>
    /\ repo' = NoRepo
    /\ UNCHANGED queue

\* lines 125-129: pr_dir.exists()
PrDirExists(n) == n \in workspace.inputs.prs

\* summarize_pr up to line 156: without the extracted pull request it
\* returns at once; else the output check (skipped in context-only mode),
\* then the cached or collected context
SummarizePr ==
    /\ pc = "pr_loop"
    /\ queue # <<>>
    /\ LET n == Head(queue)
           output_file == PrOutputFile(repo.name, n)
           context_file == PrContextFile(repo.name, n)
       IN /\ queue' = Tail(queue)
          /\ IF ~PrDirExists(n)
             THEN /\ trace' = Append(trace,
                        NotFound(repo, [a \in {"pr_number"} |-> StrInt(n)],
                                 "summarize_pr"))
                  /\ pc' = "pr_loop"
                  /\ UNCHANGED <<files, prLocals, repo, exited>>
             ELSE IF ~context_only /\ Exists(files, output_file)
             THEN /\ trace' = Append(trace, PrEvent(repo, n, "pr_output",
                                                    "Skipped", FALSE, FALSE))
                  /\ pc' = "pr_loop"
                  /\ UNCHANGED <<files, prLocals, repo, exited>>
             ELSE IF Exists(files, context_file)
             THEN /\ trace' = Append(trace, PrEvent(repo, n, "pr_context",
                                                    "Cached", FALSE, FALSE))
                  /\ pr_context' = files[context_file]
                  /\ pr_number' = IF context_only THEN 0 ELSE n
                  /\ pc' = IF context_only THEN "pr_loop" ELSE "pr_llm"
                  /\ UNCHANGED <<files, repo, exited>>
             ELSE \E task \in {Raise, Str(CollectPrContext(repo.name, n))} :
                    IF task.kind = "raise"
                    THEN /\ trace' = Append(trace, PrEvent(repo, n, "pr_context",
                                                           "Raised", TRUE, FALSE))
                         /\ pc' = "idle"
                         /\ exited' = "raised"
                         /\ UNCHANGED <<files, prLocals, repo>>
                    ELSE /\ files' = WriteText(files, context_file, task.s)
                         /\ trace' = Append(trace, PrEvent(repo, n, "pr_context",
                                                           "Computed", TRUE, TRUE))
                         /\ pr_context' = task.s
                         /\ pr_number' = IF context_only THEN 0 ELSE n
                         /\ pc' = IF context_only THEN "pr_loop" ELSE "pr_llm"
                         /\ UNCHANGED <<repo, exited>>
    /\ UNCHANGED <<env, inv, selected, context_only, format_args, repoLocals, files0, last>>

\* summarize_pr from line 158 with generate_summary_with_llm of
\* crev/sum/util.py: the LLM is called and its reply written, or its
\* exception is raised again
GenerateSummary ==
    /\ pc = "pr_llm"
    /\ \E task \in LlmTasks("sum_pr", pr_context) :
         IF task.kind = "raise"
         THEN /\ trace' = Append(trace, PrEvent(repo, pr_number, "pr_output",
                                                "Raised", TRUE, FALSE))
              /\ PrPropagate
              /\ UNCHANGED files
         ELSE /\ files' = WriteText(files, PrOutputFile(repo.name, pr_number),
                                    task.s)
              /\ trace' = Append(trace, PrEvent(repo, pr_number, "pr_output",
                                                "Computed", TRUE, TRUE))
              /\ PrReturn
    /\ UNCHANGED <<env, inv, selected, context_only, format_args, repoLocals, files0, last>>

\* the loop of sum_pr is over: click.echo("Done.")
SumPrDone ==
    /\ pc = "pr_loop"
    /\ queue = <<>>
    /\ pc' = "idle"
    /\ exited' = "done"
    /\ repo' = NoRepo
    /\ UNCHANGED <<files, env, inv, selected, context_only, queue, format_args,
                   repoLocals, prLocals, trace, files0, last>>

\* the steps of the pull-request command
NextPr ==
    \/ SumPr
    \/ SummarizePr
    \/ GenerateSummary
    \/ SumPrDone

\* a fresh workspace in which both commands are run
SpecAll == Init /\ [][NextRepo \/ NextPr]_vars

(***************************************************************************)
(* Other starting points                                                   *)
(***************************************************************************)
\* the path at which a stage of unit r reads and writes its own artifact
OwnPath(config, r, cache_key, args) ==
    PathJoin(OutputDir(r),
             CacheFilename(config, cache_key, DefaultFilename(cache_key), args).s)

\* the category dicts a categorization artifact left by an earlier run holds
SeedCategories == {ParseFileCategories(reply) : reply \in CategorizationReplies}

\* the text of an artifact left by an earlier run
SeedText(cache_key, d) ==
    IF cache_key = "categorization_result" THEN JsonDumps(d)
    ELSE <<"kept from an earlier run: ", cache_key>>

\* the filesystem in which exactly the stages in keys have their artifact
\* for unit r at the first commit, the categorization being d
SeedFiles(config, r, keys, d) ==
    LET args == FormatArgs(1, ShortHash(1))
    IN [p \in {OwnPath(config, r, k, args) : k \in keys} |->
          LET k == CHOOSE k \in keys : OwnPath(config, r, k, args) = p
          IN SeedText(k, d)]

\* the set of all cache keys
AllKeys == {StageKeys[i] : i \in 1..Len(StageKeys)}

\* any subset of a unit's artifacts is there when the one command starts:
\* earlier runs wrote them and an operator removed some
InitAny ==
    /\ InitCommon
    /\ repos = OneRepo
    /\ limit = 1
    /\ workspace = FullWorkspace
    /\ selectors = DefaultSelectors
    /\ \E keys \in SUBSET AllKeys : \E d \in SeedCategories :
         /\ ("categorization_result" \notin keys =>
               d = CHOOSE d1 \in SeedCategories : TRUE)
         /\ files = SeedFiles(cache_files_config, OneRepo[1], keys, d)
    /\ files0 = files

SpecAny == InitAny /\ [][NextRepo]_vars

\* a fresh workspace with two configured repositories
InitBatch ==
    /\ InitCommon
    /\ files = NoFiles
    /\ files0 = NoFiles
    /\ repos = TwoRepos
    /\ limit = 1
    /\ workspace = FullWorkspace
    /\ selectors = DefaultSelectors

SpecBatch == InitBatch /\ [][NextRepo]_vars

\* the two artifacts of each configured pull request of the repository
\* named repo_name
PrPaths(repo_name, prs) ==
    {PrOutputFile(repo_name, prs[i]) : i \in DOMAIN prs}
    \cup {PrContextFile(repo_name, prs[i]) : i \in DOMAIN prs}

\* the filesystem in which exactly these pull-request artifacts exist
SeedPrFiles(paths) == [p \in paths |-> <<"kept from an earlier run: ", "pr">>]

\* one command of either pipeline, started with any subset of the
\* artifacts of one of the pipelines in place; a command reads and writes
\* the files of its own pipeline only
InitAnyAll ==
    /\ InitCommon
    /\ repos = OneRepo
    /\ limit = 1
    /\ workspace = FullWorkspace
    /\ selectors = DefaultSelectors
    /\ \/ \E keys \in SUBSET AllKeys : \E d \in SeedCategories :
            /\ ("categorization_result" \notin keys =>
                  d = CHOOSE d1 \in SeedCategories : TRUE)
            /\ files = SeedFiles(cache_files_config, OneRepo[1], keys, d)
       \/ \E paths \in SUBSET PrPaths(OneRepo[1].org, OneRepo[1].pull_requests) :
            files = SeedPrFiles(paths)
    /\ files0 = files

SpecAnyAll == InitAnyAll /\ [][NextRepo \/ NextPr]_vars

\* one command of either pipeline in a fresh output directory, the
\* workspace complete or lacking configs.json or one prompt file
InitConfig ==
    /\ InitCommon
    /\ files = NoFiles
    /\ files0 = NoFiles
    /\ repos = OneRepo
    /\ limit = 1
    /\ workspace \in Workspaces
    /\ selectors = DefaultSelectors

SpecConfig == InitConfig /\ [][NextRepo \/ NextPr]_vars

\* one command of either pipeline over two configured repositories, any
\* of the input directories absent
InitInputs ==
    /\ InitCommon
    /\ files = NoFiles
    /\ files0 = NoFiles
    /\ repos = TwoRepos
    /\ limit = 1
    /\ workspace \in InputWorkspaces
    /\ selectors = DefaultSelectors

SpecInputs == InitInputs /\ [][NextRepo \/ NextPr]_vars

\* a fresh workspace with two repositories and one command, given any
\* arguments
InitSelect ==
    /\ InitCommon
    /\ files = NoFiles
    /\ files0 = NoFiles
    /\ repos = TwoRepos
    /\ limit = 1
    /\ workspace = FullWorkspace
    /\ selectors = AllSelectors

SpecSelect == InitSelect /\ [][NextRepo \/ NextPr]_vars

(***************************************************************************)
(* cache_file_check on its own, called as the stages call it but with any  *)
(* task result and with or without format_args                             *)
(***************************************************************************)
\* the parser each stage passes: json.loads for the categorization result
StageParser(cache_key) ==
    IF cache_key = "categorization_result" THEN "json" ELSE "raw"

\* the position of a category stage's category, 0 for the other stages
StageCatIdx(cache_key) ==
    CASE cache_key \in {"app_context", "app_result"} -> 1
      [] cache_key \in {"test_context", "test_result"} -> 2
      [] cache_key \in {"infra_context", "infra_result"} -> 3
      [] OTHER -> 0

\* the stages called directly
ExecKeys == {"categorization_result", "infra_context", "infra_result", "output"}

\* what the task of a direct call does: it raises, or returns None, "",
\* a text or a JSON text
ExecTasks == {Raise, None, Str(<<>>), Str(<<"text">>),
              Str(JsonDumps(EmptyCategories))}

\* the format_args of a direct call: none, those of the first commit, or
\* the commit count without the hash
ExecArgs == {NoArgs, FormatArgs(1, ShortHash(1)),
             [a \in {"commit_count"} |-> StrInt(1)]}

\* one direct call of cache_file_check for the one configured unit
CacheFileCheckCall ==
    /\ pc = "idle"
    /\ inv < limit
    /\ \E key \in ExecKeys : \E task \in ExecTasks : \E args \in ExecArgs :
         LET r == CacheFileCheck(files, OutputDir(repos[1]), cache_files_config,
                                 key, task, DefaultFilename(key),
                                 BypassKeys(key, StageCatIdx(key)),
                                 StageParser(key), args)
         IN /\ files' = r.files
            /\ call' = [key |-> key, task |-> task, args |-> args,
                        parser |-> StageParser(key), report |-> r]
    /\ files0' = files
    /\ inv' = inv + 1
    /\ UNCHANGED <<cache_files_config, repos, limit, pc, context_only, queue,
                   repo, format_args, repoLocals, prLocals, trace, exited, last,
                   race, workspace, selectors, selected>>

\* any subset of the directly called stages has its artifact at the start
InitExec ==
    /\ InitCommon
    /\ repos = OneRepo
    /\ limit = MaxCalls
    /\ workspace = FullWorkspace
    /\ selectors = DefaultSelectors
    /\ \E keys \in SUBSET ExecKeys :
         files = SeedFiles(cache_files_config, OneRepo[1], keys, EmptyCategories)
    /\ files0 = files

SpecExec == InitExec /\ [][CacheFileCheckCall]_vars

(***************************************************************************)
(* Two processes in cache_file_check at once.  The function takes no lock: *)
(* between cache_file.exists() (line 53) and cache_file.write_text (line   *)
(* 78) of one process the other may take any of its own steps.             *)
(***************************************************************************)
\* the two processes
Procs == {1, 2}

\* the stages the two processes may be in, both in the same one
RaceKeys == {"categorization_context", "structure_result", "output"}

\* the path of the cache file of process p
RacePath(p) ==
    PathJoin(OutputDir(repos[race.proc[p].unit]),
             CacheFilename(cache_files_config, race.key,
                           DefaultFilename(race.key),
                           FormatArgs(1, ShortHash(1))).s)

\* what the task of process p returns: a text of its own, as two LLM
\* calls give two texts
RaceText(p) == <<"text of process ">> \o StrInt(p)

\* process p moves on: its new position and what it has recorded
RaceStep(p, fields) ==
    race' = [race EXCEPT !.proc[p] =
               [f \in DOMAIN @ |-> IF f \in DOMAIN fields THEN fields[f] ELSE @[f]]]

\* what a race step leaves alone
raceFrame == <<cache_files_config, repos, limit, inv, pc, context_only, queue,
               repo, format_args, repoLocals, prLocals, trace, files0, exited,
               last, call, workspace, selectors, selected>>

\* lines 52-56: the cache file exists and is read, or it is absent
CheckCacheFile(p) ==
    /\ race.key # ""
    /\ race.proc[p].pc = "lookup"
    /\ IF Lookup(Exists(files, RacePath(p)), "miss") = "load"
       THEN RaceStep(p, [pc |-> "done", outcome |-> "Cached"])
       ELSE RaceStep(p, [pc |-> "bypass", sawAbsent |-> TRUE])
    /\ UNCHANGED <<files, raceFrame>>

\* lines 58-68: the bypass loop
CheckBypassFiles(p) ==
    /\ race.key # ""
    /\ race.proc[p].pc = "bypass"
    /\ LET scan == BypassScan(files, OutputDir(repos[race.proc[p].unit]),
                              cache_files_config, BypassKeys(race.key, 0),
                              FormatArgs(1, ShortHash(1)))
           todo == Lookup(FALSE, scan)
       IN IF todo = "skip"
          THEN RaceStep(p, [pc |-> "done", outcome |-> "Skipped"])
          ELSE IF todo = "raise"
          THEN RaceStep(p, [pc |-> "done", outcome |-> "Raised"])
          ELSE RaceStep(p, [pc |-> "task"])
    /\ UNCHANGED <<files, raceFrame>>

\* line 72: result = task()
RunTask(p) ==
    /\ race.key # ""
    /\ race.proc[p].pc = "task"
    /\ \E result \in {Raise, Str(RaceText(p))} :
         IF result.kind = "raise"
         THEN RaceStep(p, [pc |-> "done", outcome |-> "Raised", ran |-> TRUE])
         ELSE RaceStep(p, [pc |-> "write", ran |-> TRUE])
    /\ UNCHANGED <<files, raceFrame>>

\* lines 74-81: the result is written and returned
WriteResult(p) ==
    /\ race.key # ""
    /\ race.proc[p].pc = "write"
    /\ files' = Persist(files, RacePath(p), Str(RaceText(p)))
    /\ race' = [race EXCEPT
                  !.proc[p] = [@ EXCEPT !.pc = "done", !.outcome = "Computed",
                                        !.wrote = TRUE],
                  !.writes = Append(@, [proc |-> p, path |-> RacePath(p)])]
    /\ UNCHANGED raceFrame

\* the steps of the two processes, in any order
NextRace ==
    \/ \E p \in Procs : CheckCacheFile(p)
    \/ \E p \in Procs : CheckBypassFiles(p)
    \/ \E p \in Procs : RunTask(p)
    \/ \E p \in Procs : WriteResult(p)

\* a process that has just called cache_file_check for the unit repos[u]
RaceProc(u) ==
    [pc |-> "lookup", unit |-> u, sawAbsent |-> FALSE, ran |-> FALSE,
     wrote |-> FALSE, outcome |-> ""]

\* two processes enter the same stage, each for one of the two configured
\* units, with any subset of the first unit's artifacts in place
InitRace ==
    /\ cache_files_config \in Configs
    /\ repos = TwoRepos
    /\ limit = 0
    /\ workspace = FullWorkspace
    /\ selectors = DefaultSelectors
    /\ inv = 0
    /\ pc = "idle"
    /\ context_only = FALSE
    /\ queue = <<>>
    /\ repo = NoRepo
    /\ format_args = NoArgs
    /\ file_listing_context = <<>>
    /\ file_categories = EmptyDict
    /\ structure_context = <<>>
    /\ structure_summary = <<>>
    /\ cat_idx = 0
    /\ category_context = <<>>
    /\ category_summaries = EmptyDict
    /\ pr_number = 0
    /\ pr_context = <<>>
    /\ trace = <<>>
    /\ exited = ""
    /\ last = Summary(<<>>, FALSE, "", NoFiles, NoFiles)
    /\ call = NoCall
    /\ selected = NoSelection
    /\ \E keys \in SUBSET RaceKeys :
         files = SeedFiles(cache_files_config, TwoRepos[1], keys, EmptyCategories)
    /\ files0 = files
    /\ \E key \in RaceKeys : \E u1 \in DOMAIN TwoRepos : \E u2 \in DOMAIN TwoRepos :
         race = [key |-> key, proc |-> <<RaceProc(u1), RaceProc(u2)>>,
                 writes |-> <<>>]

SpecRace == InitRace /\ [][NextRace]_vars

(***************************************************************************)
(* Properties                                                              *)
(***************************************************************************)
\* the running command is over
Finished == pc = "idle" /\ exited # ""

\* the path of the artifact a trace entry is about
EventPath(e) == OwnPath(cache_files_config, e.repo, e.key, e.args)

\* the keys of the stages whose task ran, in the order they ran
RanKeys(t) ==
    LET ran == SelectSeq(t, LAMBDA e : e.ran)
    IN [i \in 1..Len(ran) |-> ran[i].key]

\* every file of f0 is in f1 with the same text
Kept(f0, f1) == \A p \in DOMAIN f0 : p \in DOMAIN f1 /\ f1[p] = f0[p]

\* every unit of trace t2 was run in t1 with the same format_args
SameUnits(t1, t2) ==
    \A i \in DOMAIN t2 : \E j \in DOMAIN t1 :
        t1[j].repo = t2[i].repo /\ t1[j].args = t2[i].args

\* the stages of f that have their artifact, for unit r and arguments args
PresentKeys(f, r, args) ==
    {k \in AllKeys : OwnPath(cache_files_config, r, k, args) \in DOMAIN f}

\* the stages that apply to a unit whose categorization is d, in order
StageList(d) ==
    SubSeq(StageKeys, 1, 4)
    \o (IF Truthy(GetFiles(d, "app")) THEN <<"app_context", "app_result">> ELSE <<>>)
    \o (IF Truthy(GetFiles(d, "test")) THEN <<"test_context", "test_result">> ELSE <<>>)
    \o (IF Truthy(GetFiles(d, "infra")) THEN <<"infra_context", "infra_result">> ELSE <<>>)
    \o <<"output">>

\* the stages after a stage in pipeline order
LaterKeys(key) ==
    {StageKeys[j] : j \in {j \in 1..Len(StageKeys) :
                             \E i \in 1..Len(StageKeys) : StageKeys[i] = key /\ i < j}}

\* the previous command was a complete, failure-free, normal run from a
\* fresh workspace and the running one has the same commit
SecondRun ==
    /\ inv >= 2
    /\ last.exited = "done"
    /\ ~last.context_only
    /\ last.before = NoFiles
    /\ SameUnits(last.trace, trace)

\* C1: after a complete failure-free run from a fresh unit, a second run
\* at the same commit runs no task, writes nothing and leaves every
\* artifact as the first run left it
C1_Idempotence ==
    SecondRun =>
        /\ \A i \in DOMAIN trace : ~trace[i].ran /\ ~trace[i].wrote
        /\ files = files0
        /\ files = last.after

\* C1 witness: a second normal run has gone through to the cached report
C1_Witness ==
    /\ SecondRun
    /\ Finished
    /\ exited = "done"
    /\ ~context_only
    /\ \E i \in DOMAIN trace :
         trace[i].key = "output" /\ trace[i].outcome = "Cached"

\* C2: when exactly the artifacts of the first k applicable stages exist, a
\* failure-free normal run runs the tasks of the remaining stages, in
\* pipeline order, and no others, and keeps every file it found
C2_Resumability ==
    (Finished /\ exited = "done" /\ ~context_only /\ trace # <<>>) =>
        LET r == trace[1].repo
            args == trace[1].args
            catpath == OwnPath(cache_files_config, r, "categorization_result", args)
            hasCat == catpath \in DOMAIN files
            L == IF hasCat THEN StageList(JsonLoads(files[catpath]).d)
                 ELSE StageKeys
            present == PresentKeys(files0, r, args)
        IN \A k \in 0..Len(L) :
             present = {L[i] : i \in 1..k} =>
                 /\ hasCat
                 /\ RanKeys(trace) = SubSeq(L, k + 1, Len(L))
                 /\ Kept(files0, files)

\* C2 witness: a run that found the first three artifacts has run the
\* tasks from the structure summary to the combined report
C2_Witness ==
    /\ Finished
    /\ exited = "done"
    /\ ~context_only
    /\ trace # <<>>
    /\ PresentKeys(files0, trace[1].repo, trace[1].args) =
         {"categorization_context", "categorization_result", "structure_context"}
    /\ Len(RanKeys(trace)) >= 4
    /\ RanKeys(trace)[1] = "structure_result"
    /\ RanKeys(trace)[Len(RanKeys(trace))] = "output"

\* C3: when only the final report exists, a run runs no task, every stage
\* but the last reports Skipped and the last reports Cached
C3_OnlyFinalReport ==
    (Finished /\ trace # <<>>
       /\ PresentKeys(files0, trace[1].repo, trace[1].args) = {"output"}) =>
        /\ \A i \in DOMAIN trace : ~trace[i].ran
        /\ \A k \in AllKeys \ {"output"} :
             \E i \in DOMAIN trace :
                 trace[i].key = k /\ trace[i].outcome = "Skipped"
        /\ \E i \in DOMAIN trace :
             trace[i].key = "output" /\ trace[i].outcome = "Cached"

\* C4: the task of a stage is never run in a run that found the artifact
\* of a later stage
C4_NoUpstreamRecomputation ==
    \A i \in DOMAIN trace :
        trace[i].ran =>
            \A k \in LaterKeys(trace[i].key) :
                OwnPath(cache_files_config, trace[i].repo, k, trace[i].args)
                    \notin DOMAIN files0

\* the previous command ended in a failing task and the running one is
\* over, in the same mode and at the same commit
Retried ==
    /\ Finished
    /\ last.exited = "raised"
    /\ last.trace # <<>>
    /\ trace # <<>>
    /\ context_only = last.context_only
    /\ trace[1].args = last.trace[1].args

\* C5: a failing task ends the run with an exception and without an
\* artifact for its stage, the artifacts written before it stay, and the
\* next run of the unit runs that task again and no task of a stage whose
\* artifact it found
C5_FailureLeavesStageUncached ==
    /\ (pc = "idle" /\ exited = "raised") =>
           LET e == trace[Len(trace)]
           IN /\ e.outcome = "Raised"
              /\ e.ran
              /\ ~e.wrote
              /\ EventPath(e) \notin DOMAIN files
              /\ \A i \in DOMAIN trace :
                    trace[i].wrote => EventPath(trace[i]) \in DOMAIN files
              /\ Kept(files0, files)
    /\ Retried =>
           LET f == last.trace[Len(last.trace)]
           IN /\ \E i \in DOMAIN trace : trace[i].key = f.key /\ trace[i].ran
              /\ \A i \in DOMAIN trace :
                    trace[i].ran => EventPath(trace[i]) \notin DOMAIN files0

\* C5 witness: the retry found artifacts of the failed run, ran the failed
\* task again and went through
C5_Witness ==
    /\ Retried
    /\ exited = "done"
    /\ \E i \in DOMAIN trace : trace[i].outcome = "Cached"
    /\ \E i \in DOMAIN trace :
         /\ trace[i].key = last.trace[Len(last.trace)].key
         /\ trace[i].outcome = "Computed"

\* C6: whatever fails in one unit, the command enters every configured
\* unit and reports completion
C6_BatchIsolation ==
    Finished =>
        /\ exited = "done"
        /\ \A j \in DOMAIN repos :
             \E i \in DOMAIN trace :
                 trace[i].repo = repos[j] /\ trace[i].key = "summarize_repo"

\* C7: no step of any command removes a file or changes its text
C7_ArtifactsImmutable == [][Kept(files, files')]_vars

\* C7 witness: a command that found artifacts has loaded one and written
\* another
C7_Witness ==
    /\ Finished
    /\ DOMAIN files0 # {}
    /\ \E i \in DOMAIN trace : trace[i].outcome = "Cached"
    /\ \E i \in DOMAIN trace : trace[i].wrote

\* the path of the cache file of the last direct call, and whether its
\* name could be formatted
CallName == CacheFilename(cache_files_config, call.key, DefaultFilename(call.key),
                          call.args)

CallPath == PathJoin(OutputDir(repos[1]), CallName.s)

\* a direct call has been made and its file name was formatted
Called == call.key # "" /\ CallName.ok

\* the stages downstream of the last direct call whose artifact was there
\* before it, each at the path where that stage keeps its own artifact
CallDownstreamBefore ==
    LET keys == BypassKeys(call.key, StageCatIdx(call.key))
    IN {keys[i] : i \in {i \in DOMAIN keys :
          LET fn == CacheFilename(cache_files_config, keys[i],
                                  DefaultFilename(keys[i]), call.args)
          IN fn.ok /\ PathJoin(OutputDir(repos[1]), fn.s) \in DOMAIN files0}}

\* C8: a call that finds the stage's own artifact returns its parsed text,
\* runs no task and writes nothing, downstream artifacts or not
C8_CachedFirst ==
    (Called /\ CallPath \in DOMAIN files0) =>
        /\ ~call.report.ran
        /\ ~call.report.wrote
        /\ files = files0
        /\ IF call.parser = "json"
           THEN IF JsonLoads(files0[CallPath]).ok
                THEN /\ call.report.outcome = "Cached"
                     /\ call.report.value = Dict(JsonLoads(files0[CallPath]).d)
                ELSE call.report.outcome = "Raised"
           ELSE /\ call.report.outcome = "Cached"
                /\ call.report.value = Str(files0[CallPath])

\* C8 witness: the artifact was loaded although a downstream one existed
C8_Witness ==
    /\ Called
    /\ CallPath \in DOMAIN files0
    /\ CallDownstreamBefore # {}
    /\ call.report.outcome = "Cached"

\* C9: a call that finds no artifact of its own stage but one of a
\* downstream stage returns None, runs no task and leaves the files alone
C9_SkippedIsNoOp ==
    (Called /\ CallPath \notin DOMAIN files0 /\ CallDownstreamBefore # {}) =>
        /\ call.report.outcome = "Skipped"
        /\ call.report.value = None
        /\ ~call.report.ran
        /\ files = files0

\* the task of the last direct call ran and returned this value
CallReturned(v) == Called /\ call.report.ran /\ call.task = v

\* C10 as claimed: a task result of None or "" is not written
C10_EmptyNotPersisted ==
    (CallReturned(None) \/ CallReturned(Str(<<>>))) =>
        /\ ~call.report.wrote
        /\ CallPath \notin DOMAIN files

\* C10 as amended: a task result of None is not written and the artifact
\* stays absent; any str, the empty one too, is written as the artifact
C10_NoneNotPersisted ==
    /\ CallReturned(None) =>
         /\ ~call.report.wrote
         /\ CallPath \notin DOMAIN files
         /\ files = files0
    /\ \A t \in ExecTasks :
         (t.kind = "str" /\ CallReturned(t)) =>
             CallPath \in DOMAIN files /\ files[CallPath] = t.s

\* C10 witness: a task ran, returned None and no artifact was written
C10_Witness ==
    /\ CallReturned(None)
    /\ call.report.outcome = "Computed"
    /\ CallPath \notin DOMAIN files

\* the stages whose task calls the LLM or combines LLM results
LlmKeys == {"categorization_result", "structure_result", "app_result",
            "test_result", "infra_result", "output", "pr_output"}

\* the stages a context-only run may run: the context collector of each
\* pipeline
ContextKeys == {"categorization_context", "pr_context"}

\* the path of the context artifact of the unit a trace entry is about
ContextPath(e) ==
    IF "pr_number" \in DOMAIN e.args
    THEN PathJoin(PathJoin(<<"pullrequests", "/", e.repo.name, "/">>
                           \o e.args["pr_number"], <<"sum">>),
                  <<"sum.context.md">>)
    ELSE OwnPath(cache_files_config, e.repo, "categorization_context", e.args)

\* C11: in context-only mode, whatever artifacts exist, no LLM stage is
\* invoked, the only file a run creates is a context artifact, the run
\* ends without error unless its collector itself fails, and from a fresh
\* workspace every unit ends with its context artifact
C11_ContextOnlyNoLlm ==
    context_only =>
        /\ \A i \in DOMAIN trace : trace[i].key \notin LlmKeys
        /\ \A i \in DOMAIN trace :
              (trace[i].ran \/ trace[i].wrote) => trace[i].key \in ContextKeys
        /\ Kept(files0, files)
        /\ \A p \in DOMAIN files \ DOMAIN files0 :
              \E i \in DOMAIN trace : trace[i].wrote /\ ContextPath(trace[i]) = p
        /\ (Finished /\ exited = "raised") =>
              LET e == trace[Len(trace)]
              IN e.key \in ContextKeys /\ e.ran /\ e.outcome = "Raised"
        /\ (Finished /\ exited = "done" /\ files0 = NoFiles) =>
              /\ trace # <<>>
              /\ \A i \in DOMAIN trace : ContextPath(trace[i]) \in DOMAIN files

\* C11 witness: a context-only run that found a result or report artifact
\* of its unit has collected the context and ended
C11_Witness ==
    /\ context_only
    /\ Finished
    /\ exited = "done"
    /\ DOMAIN files0 # {}
    /\ \E i \in DOMAIN trace : trace[i].wrote /\ trace[i].key \in ContextKeys


\* the combined report has the analysis section of category c
HasSection(report, c) ==
    \E i \in 1..(Len(report) - 2) :
        /\ report[i] = "## "
        /\ report[i + 1] = Title(c)
        /\ report[i + 2] = " Analysis\n"

\* the categorization the running command works with: the one in the
\* categorization artifact of the unit of trace entry e
CategoriesOf(e) ==
    JsonLoads(files[OwnPath(cache_files_config, e.repo, "categorization_result",
                            e.args)]).d

\* the running command has got past the categorization stage
Categorized ==
    \E i \in DOMAIN trace :
        /\ trace[i].key = "categorization_result"
        /\ trace[i].outcome \in {"Cached", "Computed"}

\* C12: when the categorization lists no file for a category, neither of
\* the category's stages is invoked, whatever artifacts exist, no artifact
\* of the category is created, and a report written in the run has no
\* analysis section for it
C12_CategorySkip ==
    Categorized =>
        \A i \in 1..Len(Categories) :
            LET c == Categories[i]
                e == trace[1]
            IN GetFiles(CategoriesOf(e), c) = <<>> =>
                 /\ \A j \in DOMAIN trace :
                       trace[j].key \notin {ContextKey(c), ResultKey(c)}
                 /\ \A k \in {ContextKey(c), ResultKey(c)} :
                       LET q == OwnPath(cache_files_config, e.repo, k, e.args)
                       IN q \in DOMAIN files => q \in DOMAIN files0
                 /\ \A j \in DOMAIN trace :
                       (trace[j].key = "output" /\ trace[j].wrote) =>
                           ~HasSection(files[EventPath(trace[j])], c)

\* C12 witness: a run whose categorization has app files and no test file
\* found a test context artifact and wrote a report with an App section
C12_Witness ==
    /\ Finished
    /\ exited = "done"
    /\ Categorized
    /\ GetFiles(CategoriesOf(trace[1]), "test") = <<>>
    /\ GetFiles(CategoriesOf(trace[1]), "app") # <<>>
    /\ OwnPath(cache_files_config, trace[1].repo, "test_context", trace[1].args)
         \in DOMAIN files0
    /\ \E j \in DOMAIN trace :
         /\ trace[j].key = "output"
         /\ trace[j].wrote
         /\ HasSection(files[EventPath(trace[j])], "app")


\* a reply with no parseable JSON object: no "{", no "}" after the first
\* "{", or text from the first "{" to the last "}" that is not JSON
Malformed(reply) ==
    LET first == Find(reply, "{", 1)
        lastBrace == RFind(reply, "}", Len(reply))
    IN \/ first = 0
       \/ lastBrace < first
       \/ ~JsonLoads(SubSeq(reply, first, lastBrace)).ok

\* the keys of the trace entries after the i-th
KeysAfter(t, i) == [j \in 1..(Len(t) - i) |-> t[i + j].key]

\* C13: after a reply without a parseable JSON object the categorization
\* task yields three empty lists, the stage writes them as its artifact and
\* returns, and the run goes on through the structure stages to the
\* report, ending in an error only when a later task fails
C13_MalformedCategorization ==
    \A i \in DOMAIN trace :
        ("reply" \in DOMAIN trace[i] /\ Malformed(trace[i].reply)) =>
            /\ trace[i].outcome = "Computed"
            /\ trace[i].wrote
            /\ EventPath(trace[i]) \in DOMAIN files
            /\ files[EventPath(trace[i])] = JsonDumps(EmptyCategories)
            /\ i = Len(trace) => (pc = "phase2a" /\ file_categories = EmptyCategories)
            /\ i < Len(trace) => trace[i + 1].key = "structure_context"
            /\ (Finished /\ exited = "raised") =>
                  /\ i < Len(trace)
                  /\ trace[Len(trace)].ran
            /\ (Finished /\ exited = "done") =>
                  KeysAfter(trace, i)
                      = <<"structure_context", "structure_result", "output">>

\* C13 witness: a run whose LLM replied with undecodable text between
\* braces has written the fallback and gone on to write the report
C13_Witness ==
    /\ Finished
    /\ exited = "done"
    /\ \E i \in DOMAIN trace :
         /\ "reply" \in DOMAIN trace[i]
         /\ Malformed(trace[i].reply)
         /\ Find(trace[i].reply, "{", 1) # 0
         /\ RFind(trace[i].reply, "}", Len(trace[i].reply))
              > Find(trace[i].reply, "{", 1)
    /\ trace[Len(trace)].key = "output"
    /\ trace[Len(trace)].wrote


\* the running command is a complete, failure-free, normal run of a unit
\* that had no artifact
FreshRunDone ==
    /\ Finished
    /\ exited = "done"
    /\ ~context_only
    /\ files0 = NoFiles
    /\ trace # <<>>

\* C14: a fresh failure-free run leaves exactly the artifacts of the four
\* categorization and structure stages, a context and a result artifact
\* for each category that has files and none for the others, and one report
\* whose analysis sections are those of the categories that have files
C14_FreshArtifactSet ==
    FreshRunDone =>
        LET e == trace[1]
            catpath == OwnPath(cache_files_config, e.repo,
                               "categorization_result", e.args)
            report == OwnPath(cache_files_config, e.repo, "output", e.args)
        IN /\ catpath \in DOMAIN files
           /\ JsonLoads(files[catpath]).ok
           /\ LET d == JsonLoads(files[catpath]).d
                  L == StageList(d)
              IN /\ DOMAIN files =
                      {OwnPath(cache_files_config, e.repo, L[i], e.args) :
                         i \in DOMAIN L}
                 /\ Cardinality(DOMAIN files) = Len(L)
                 /\ \A i \in 1..Len(Categories) :
                       HasSection(files[report], Categories[i])
                           <=> GetFiles(d, Categories[i]) # <<>>

\* C14 witness: with app and infra files and no test file the run left
\* nine artifacts and a report with App and Infra sections only
C14_Witness ==
    /\ FreshRunDone
    /\ Cardinality(DOMAIN files) = 9
    /\ LET report == files[OwnPath(cache_files_config, trace[1].repo, "output",
                                   trace[1].args)]
       IN /\ HasSection(report, "app")
          /\ HasSection(report, "infra")
          /\ ~HasSection(report, "test")


\* C15: for every downstream key of a call, the bypass check looks at the
\* path at which that key's stage keeps its own artifact: the configured
\* name if there is one, the default otherwise, with the same format_args
C15_OnePathPerKey ==
    Called =>
        LET keys == BypassKeys(call.key, StageCatIdx(call.key))
        IN \A i \in DOMAIN keys :
             LET own == CacheFilename(cache_files_config, keys[i],
                                      DefaultFilename(keys[i]), call.args)
                 seen == BypassFilename(cache_files_config, keys[i], call.args)
             IN /\ seen.looked
                /\ seen.ok = own.ok
                /\ seen.s = own.s


\* the template holds a replacement field that args does not supply
NeedsMissingArg(template, args) ==
    \E i \in DOMAIN template :
        /\ template[i] \in DOMAIN Placeholder
        /\ Placeholder[template[i]] \notin DOMAIN args

\* the file name template of the stage of the last direct call
CallTemplate ==
    IF call.key \in DOMAIN cache_files_config THEN cache_files_config[call.key]
    ELSE DefaultFilename(call.key)

\* C16: a call whose file name template holds a replacement field that
\* format_args does not supply, empty format_args included, ends in an
\* error without running the task and without touching a file
C16_TemplateErrorsFailFast ==
    (call.key # "" /\ NeedsMissingArg(CallTemplate, call.args)) =>
        /\ call.report.outcome = "Raised"
        /\ ~call.report.ran
        /\ ~call.report.wrote
        /\ files = files0


\* the path ends with these fragments
EndsWith(path, suffix) ==
    /\ Len(path) >= Len(suffix)
    /\ SubSeq(path, Len(path) - Len(suffix) + 1, Len(path)) = suffix

\* the artifact of a pull request that has this name, directly under
\* <org>/<repo>/<n>/, exists
PrArtifactAt(e, name) ==
    \E p \in DOMAIN files :
        EndsWith(p, <<"/", e.repo.org, "/", OneRepo[1].name, "/">>
                    \o e.args["pr_number"] \o <<"/">> \o name)

\* C17: the context of pull request n is kept at sum.pr.n.context.md and
\* its summary at sum.pr.n.ai.md, both directly under <org>/<repo>/<n>/
C17_PrArtifactNames ==
    \A i \in DOMAIN trace :
        /\ (trace[i].key = "pr_context" /\ trace[i].wrote) =>
              PrArtifactAt(trace[i], <<"sum.pr.">> \o trace[i].args["pr_number"]
                                       \o <<".context.md">>)
        /\ (trace[i].key = "pr_output" /\ trace[i].wrote) =>
              PrArtifactAt(trace[i], <<"sum.pr.">> \o trace[i].args["pr_number"]
                                       \o <<".ai.md">>)


\* the trace entries of the running command about pull request n
EventsOf(n) ==
    SelectSeq(trace, LAMBDA e : /\ "pr_number" \in DOMAIN e.args
                                /\ e.args["pr_number"] = StrInt(n))

\* the numbers of the configured pull requests
PrNumbers == {OneRepo[1].pull_requests[i] : i \in DOMAIN OneRepo[1].pull_requests}

\* C18: in a normal run, a pull request whose summary exists has no task
\* run; otherwise an existing context is loaded without running the
\* collector, a missing one is collected and written, and then the LLM is
\* called once on the prompt template followed by that context; the
\* summary is there only once the LLM call has returned
C18_PrCaching ==
    ~context_only =>
        \A n \in PrNumbers :
            LET ev == EventsOf(n)
                out == PrOutputFile(ev[1].repo.name, n)
                ctx == PrContextFile(ev[1].repo.name, n)
            IN ev # <<>> =>
                 IF out \in DOMAIN files0
                 THEN /\ Len(ev) = 1
                      /\ ev[1].key = "pr_output"
                      /\ ev[1].outcome = "Skipped"
                      /\ ~ev[1].ran
                      /\ ~ev[1].wrote
                 ELSE /\ ev[1].key = "pr_context"
                      /\ IF ctx \in DOMAIN files0
                         THEN ev[1].outcome = "Cached" /\ ~ev[1].ran
                         ELSE /\ ev[1].ran
                              /\ ev[1].outcome = "Computed" =>
                                    /\ ctx \in DOMAIN files
                                    /\ files[ctx] = CollectPrContext(ev[1].repo.name, n)
                      /\ Len(ev) <= 2
                      /\ (Len(ev) = 1 /\ ev[1].outcome # "Raised") =>
                            (pc = "pr_llm" /\ pr_number = n)
                      /\ Len(ev) = 2 =>
                            /\ ev[1].outcome # "Raised"
                            /\ ev[2].key = "pr_output"
                            /\ ev[2].ran
                            /\ ev[2].outcome = "Computed" =>
                                  files[out] = LlmReply(
                                      FullPrompt(PromptTemplate("sum_pr"), files[ctx]),
                                      inv)
                      /\ out \in DOMAIN files <=>
                            (Len(ev) = 2 /\ ev[2].outcome = "Computed")

\* C18 witness: a normal run found the context of a pull request without
\* its summary, loaded it and wrote the summary
C18_Witness ==
    /\ ~context_only
    /\ Finished
    /\ exited = "done"
    /\ \E n \in PrNumbers :
         /\ Len(EventsOf(n)) = 2
         /\ EventsOf(n)[1].outcome = "Cached"
         /\ EventsOf(n)[2].outcome = "Computed"
         /\ PrContextFile(EventsOf(n)[1].repo.name, n) \in DOMAIN files0
         /\ PrOutputFile(EventsOf(n)[1].repo.name, n) \in DOMAIN files


\* the processes of the race whose task ran for the artifact at path
Producers(path) == {p \in Procs : race.proc[p].ran /\ RacePath(p) = path}

\* C19: without a lock, the artifact holds the text of the process that
\* wrote it last, whoever else wrote before; and two processes on
\* different units have different artifacts, so that no artifact has two
\* task runs
C19_SameUnitRace ==
    race.key # "" =>
        /\ \A i \in DOMAIN race.writes :
              (\A j \in DOMAIN race.writes :
                   (j > i) => race.writes[j].path # race.writes[i].path) =>
                  files[race.writes[i].path] = RaceText(race.writes[i].proc)
        /\ race.proc[1].unit # race.proc[2].unit =>
              /\ RacePath(1) # RacePath(2)
              /\ \A p \in Procs : Cardinality(Producers(RacePath(p))) <= 1

\* C19 witness: two processes on the same unit both found the artifact
\* absent, both ran the task and both wrote; the artifact holds the text
\* of the second writer and the text of the first is lost
C19_Witness ==
    /\ race.key # ""
    /\ race.proc[1].unit = race.proc[2].unit
    /\ \A p \in Procs :
         /\ race.proc[p].sawAbsent
         /\ race.proc[p].ran
         /\ race.proc[p].wrote
    /\ Len(race.writes) = 2
    /\ files[RacePath(1)] = RaceText(race.writes[2].proc)
    /\ files[RacePath(1)] # RaceText(race.writes[1].proc)


\* the prompt the task of a stage loads, "" if it loads none
PromptOf(key) ==
    CASE key = "categorization_result" -> "sum_repo_file_category"
      [] key = "structure_result" -> "sum_repo_structure"
      [] key = "app_result" -> "sum_repo_app"
      [] key = "test_result" -> "sum_repo_test"
      [] key = "infra_result" -> "sum_repo_infra"
      [] key = "pr_output" -> "sum_pr"
      [] OTHER -> ""

\* the running command was ended by a missing configs.json or by a
\* missing prompt file
ConfigurationError ==
    /\ Finished
    /\ exited = "raised"
    /\ \/ ~workspace.configs
       \/ trace = <<>>
       \/ /\ trace # <<>>
          /\ trace[Len(trace)].outcome = "Raised"
          /\ PromptOf(trace[Len(trace)].key) \in PromptNames \ workspace.prompts

\* C20: when a missing configs.json or prompt file ends a command, no task
\* has run before and no artifact has been written
C20_ConfigErrorsAbortFirst ==
    ConfigurationError =>
        /\ files = files0
        /\ \A i \in 1..(Len(trace) - 1) : ~trace[i].ran /\ ~trace[i].wrote


\* the path lies under the directory
Under(path, dir) ==
    Len(path) > Len(dir) /\ SubSeq(path, 1, Len(dir)) = dir

\* the trace entries about repository r, and those of a pull request
EventsOfRepo(r) ==
    SelectSeq(trace, LAMBDA e : e.repo = r /\ "pr_number" \notin DOMAIN e.args)

\* the running command is sum_pr
PrCommand == trace # <<>> /\ "pr_number" \in DOMAIN trace[1].args

\* C21: a unit whose input directory is absent is passed over with a
\* message: no stage of it is invoked and no file is created under its
\* output directory; the command goes on to the other units and, unless
\* one of them fails, visits every configured unit and reports completion
C21_MissingInputSkipsUnit ==
    /\ \A j \in DOMAIN repos :
          (repos[j].name \notin workspace.inputs.repos) =>
              /\ Len(EventsOfRepo(repos[j])) <= 1
              /\ \A i \in DOMAIN EventsOfRepo(repos[j]) :
                    /\ EventsOfRepo(repos[j])[i].outcome = "NotFound"
                    /\ ~EventsOfRepo(repos[j])[i].ran
              /\ ~PrCommand =>
                    \A p \in DOMAIN files : ~Under(p, OutputDir(repos[j]))
    /\ \A n \in AllInputs.prs :
          (n \notin workspace.inputs.prs) =>
              /\ Len(EventsOf(n)) <= 1
              /\ \A i \in DOMAIN EventsOf(n) :
                    /\ EventsOf(n)[i].outcome = "NotFound"
                    /\ ~EventsOf(n)[i].ran
              /\ \A p \in DOMAIN files :
                    \A i \in DOMAIN repos : ~Under(p, PrDir(repos[i].org, n))
    /\ (Finished /\ exited = "raised") =>
          (trace # <<>> /\ trace[Len(trace)].outcome = "Raised")
    /\ (Finished /\ exited = "done" /\ ~PrCommand /\ inv > 0) =>
          \A j \in DOMAIN repos : Len(EventsOfRepo(repos[j])) >= 1
    /\ (Finished /\ exited = "done" /\ PrCommand) =>
          \A n \in AllInputs.prs : Len(EventsOf(n)) >= 1

\* C21 witness: the first repository has no checkout; the command passed
\* it over, summarized the second one and reported completion
C21_Witness ==
    /\ Finished
    /\ exited = "done"
    /\ Len(trace) > 2
    /\ trace[1].outcome = "NotFound"
    /\ trace[1].repo = repos[1]
    /\ trace[2].outcome = "Entered"
    /\ trace[2].repo = repos[2]
    /\ \E i \in DOMAIN trace : trace[i].wrote
    /\ \A p \in DOMAIN files : Under(p, OutputDir(repos[2]))


\* the previous command was a complete, failure-free, normal run from a
\* fresh workspace and the running one finds the same unit at another
\* commit
NewCommitRun ==
    /\ inv >= 2
    /\ last.exited = "done"
    /\ ~last.context_only
    /\ last.before = NoFiles
    /\ last.trace # <<>>
    /\ trace # <<>>
    /\ trace[1].repo = last.trace[1].repo
    /\ trace[1].args # last.trace[1].args

\* C22: a run at a new commit keeps the report of the old commit and every
\* intermediate artifact as they were and, when it completes, has added
\* exactly one file, the report named for the new commit
C22_NewCommitAddsReport ==
    NewCommitRun =>
        LET old == OwnPath(cache_files_config, trace[1].repo, "output",
                           last.trace[1].args)
            new == OwnPath(cache_files_config, trace[1].repo, "output",
                           trace[1].args)
        IN /\ Kept(files0, files)
           /\ old \in DOMAIN files0
           /\ old # new
           /\ new \notin DOMAIN files0
           /\ (Finished /\ exited = "done" /\ ~context_only) =>
                 /\ DOMAIN files = DOMAIN files0 \cup {new}
                 /\ \E i \in DOMAIN trace :
                       /\ trace[i].key = "output"
                       /\ trace[i].outcome = "Computed"
                       /\ trace[i].wrote

\* C22 witness: the run at the new commit has completed and both reports
\* are there
C22_Witness ==
    /\ NewCommitRun
    /\ Finished
    /\ exited = "done"
    /\ ~context_only
    /\ OwnPath(cache_files_config, trace[1].repo, "output", last.trace[1].args)
         \in DOMAIN files
    /\ OwnPath(cache_files_config, trace[1].repo, "output", trace[1].args)
         \in DOMAIN files
    /\ Cardinality(DOMAIN files) = Cardinality(DOMAIN files0) + 1


\* a producer (collector, LLM call or combine task) raised in this run
ProducerFailed ==
    \E i \in DOMAIN trace : trace[i].ran /\ trace[i].outcome = "Raised"

\* the statements of summarize_repo still ahead of each position, counted
\* from the end: combine, then two per category, then the four early stages
StepsAhead ==
    CASE pc = "phase1a" -> 12
      [] pc = "phase1b" -> 11
      [] pc = "phase2a" -> 10
      [] pc = "phase2b" -> 9
      [] pc = "phase3a" -> 9 - 2 * cat_idx
      [] pc = "phase3b" -> 8 - 2 * cat_idx
      [] pc = "combine" -> 1
      [] OTHER -> 0

\* a bound on the steps the commands still to be given can take: 14 for
\* each repository in the queue, one for leaving the loop, and the like
\* for every command not yet started
Remaining ==
    (limit - inv) * (14 * Len(repos) + 2)
    + (IF pc = "idle" THEN 0 ELSE 14 * Len(queue) + 1 + StepsAhead)

\* C23: from every subset of well-formed artifacts the run comes to an end
\* (every step it takes lowers the bound Remaining, so it takes finitely
\* many), and it ends with an exception only if a producer raised one
C23_AbsenceIsNoError ==
    /\ [][Remaining' < Remaining]_vars
    /\ [](Finished => (exited = "done" \/ ProducerFailed))

\* C23 witness: a run that found a downstream artifact without its
\* upstream one, passed a stage over and ended without an exception
C23_Witness ==
    /\ Finished
    /\ exited = "done"
    /\ ~ProducerFailed
    /\ \E i \in DOMAIN trace :
          /\ trace[i].outcome = "Skipped"
          /\ EventPath(trace[i]) \notin DOMAIN files0
          /\ \E k \in LaterKeys(trace[i].key) :
                OwnPath(cache_files_config, trace[i].repo, k, trace[i].args)
                    \in DOMAIN files0


\* the units the finished command has entered: (org, name) of a repository,
\* or (org, name, number) of a pull request
ProcessedUnits ==
    {IF "pr_number" \in DOMAIN trace[i].args
     THEN <<trace[i].repo.org, trace[i].repo.name, trace[i].args.pr_number>>
     ELSE <<trace[i].repo.org, trace[i].repo.name>> : i \in DOMAIN trace}

\* an omitted selector and "." match everything, any other selector
\* matches the entry of exactly that value
Matches(selector, value) == selector \in {"", "."} \/ selector = value

\* the configured entries that match the arguments of the running command
MatchingUnits ==
    LET rs == {repos[i] : i \in {i \in DOMAIN repos :
                                   Matches(selected.repo_name, repos[i].name)}}
    IN IF selected.command = "repo"
       THEN {<<r.org, r.name>> : r \in rs}
       ELSE UNION {{<<r.org, r.name, StrInt(r.pull_requests[i])>> :
                      i \in {i \in DOMAIN r.pull_requests :
                                selected.pr_number \in {0, r.pull_requests[i]}}} :
                   r \in rs}

\* C24: a command that came to its end without a failing stage, or ended
\* before its first unit, has entered exactly the configured entries that
\* match its repository-name and pull-request-number arguments
C24_UnitSelection ==
    (Finished /\ (exited = "done" \/ trace = <<>>)) =>
        ProcessedUnits = MatchingUnits


\* C25: a normal run that came to its end without a failing producer, and
\* that did not find the final combined report of its commit when it began,
\* leaves that report behind
C25_FailureFreeRunYieldsReport ==
    (Finished /\ exited = "done" /\ ~context_only /\ trace # <<>>) =>
        LET report == OwnPath(cache_files_config, trace[1].repo, "output",
                              trace[1].args)
        IN report \notin DOMAIN files0 => report \in DOMAIN files


\* C26: a final combined report written by a run has an analysis section
\* for every category to which the run's categorization assigns a file
C26_ReportMatchesCategorization ==
    \A j \in DOMAIN trace :
        (trace[j].key = "output" /\ trace[j].wrote) =>
            \A i \in 1..Len(Categories) :
                GetFiles(CategoriesOf(trace[1]), Categories[i]) # <<>> =>
                    HasSection(files[EventPath(trace[j])], Categories[i])


\* C27: in either mode, a pull request whose summary exists and whose
\* context does not has no task run and no file written
C27_PrBypassInEveryMode ==
    \A n \in PrNumbers :
        LET ev == EventsOf(n)
            out == PrOutputFile(ev[1].repo.name, n)
            ctx == PrContextFile(ev[1].repo.name, n)
        IN (ev # <<>> /\ out \in DOMAIN files0 /\ ctx \notin DOMAIN files0) =>
              /\ \A i \in DOMAIN ev : ~ev[i].ran /\ ~ev[i].wrote
              /\ ctx \notin DOMAIN files


\* the stages whose producer calls the LLM
LlmStageKeys == {"categorization_result", "structure_result", "app_result",
                 "test_result", "infra_result"}

\* the stages of a run with categorization d, in the order of the pipeline:
\* the four early stages, two for each category with a file, the report
FullStages(d) ==
    <<"categorization_context", "categorization_result",
      "structure_context", "structure_result">>
    \o (IF GetFiles(d, "app") # <<>> THEN <<"app_context", "app_result">>
        ELSE <<>>)
    \o (IF GetFiles(d, "test") # <<>> THEN <<"test_context", "test_result">>
        ELSE <<>>)
    \o (IF GetFiles(d, "infra") # <<>> THEN <<"infra_context", "infra_result">>
        ELSE <<>>)
    \o <<"output">>

\* s is an initial part of t
IsPrefix(s, t) == Len(s) <= Len(t) /\ s = SubSeq(t, 1, Len(s))

\* C28: in a normal run from a fresh workspace the producers run in the
\* order of the pipeline, each at most once and only after every earlier
\* one has returned a value; a run without a failure has called the LLM
\* once for the categorization, once for the structure summary and once
\* for each category with a file, in the order app, test, infra
C28_LlmCallOrder ==
    (files0 = NoFiles /\ ~context_only /\ trace # <<>> /\ ~PrCommand) =>
        LET ran == SelectSeq(trace, LAMBDA e : e.ran)
            keys == RanKeys(trace)
            llm == SelectSeq(keys, LAMBDA k : k \in LlmStageKeys)
        IN /\ \A i \in DOMAIN keys : \A j \in DOMAIN keys :
                 i < j => keys[i] # keys[j]
           /\ \A i \in 1..(Len(ran) - 1) : ran[i].outcome = "Computed"
           /\ IF Categorized
              THEN /\ IsPrefix(keys, FullStages(CategoriesOf(trace[1])))
                   /\ (Finished /\ exited = "done") =>
                         /\ keys = FullStages(CategoriesOf(trace[1]))
                         /\ llm = SelectSeq(FullStages(CategoriesOf(trace[1])),
                                            LAMBDA k : k \in LlmStageKeys)
              ELSE IsPrefix(keys, <<"categorization_context",
                                    "categorization_result">>)

\* C28 witness: a fresh run without a failure called the LLM four times:
\* categorization, structure, app and infra, test having no file
C28_Witness ==
    /\ FreshRunDone
    /\ SelectSeq(RanKeys(trace), LAMBDA k : k \in LlmStageKeys)
         = <<"categorization_result", "structure_result", "app_result",
             "infra_result">>


\* the categories for which the run whose entries are t got a summary
SummarizedIn(t, c) ==
    \E i \in DOMAIN t :
        /\ t[i].key = ResultKey(c)
        /\ t[i].outcome \in {"Cached", "Computed"}

\* the section of category c in a report for the unit of entry e: a blank
\* separator, the heading, the summary in the category's result artifact
\* and a horizontal rule; nothing when the run has no summary of c
SectionOf(e, c) ==
    IF SummarizedIn(trace, c)
    THEN <<"\n", "## ", Title(c), " Analysis\n", "\n">>
         \o files[OwnPath(cache_files_config, e.repo, ResultKey(c), e.args)]
         \o <<"\n", "\n---\n">>
    ELSE <<>>

\* the report the claim describes for the unit of entry e: title with the
\* repository name, provenance line, rule, structure summary, rule, then
\* the sections of app, test and infra
LayoutOf(e) ==
    <<"# Repository Summary: ", e.repo.name, "\n">>
    \o <<"\n*Generated from commit #">> \o e.args["commit_count"]
    \o <<" (">> \o e.args["short_hash"] \o <<")*\n", "\n">>
    \o <<"---\n", "\n">>
    \o <<"## Repository Structure\n", "\n">>
    \o files[OwnPath(cache_files_config, e.repo, "structure_result", e.args)]
    \o <<"\n", "\n---\n">>
    \o SectionOf(e, "app") \o SectionOf(e, "test") \o SectionOf(e, "infra")

\* C29: a report the combine producer writes has the title, the provenance
\* line, the structure summary and one section for each category that got
\* a summary in the run, in the order app, test, infra, with a rule after
\* the provenance line, the structure summary and each section; a category
\* without a summary adds nothing
C29_ReportLayout ==
    \A j \in DOMAIN trace :
        (trace[j].key = "output" /\ trace[j].wrote) =>
            files[EventPath(trace[j])] = LayoutOf(trace[j])

\* C29 witness: a report was written in a run that loaded some artifacts,
\* with sections for app and infra and none for test
C29_Witness ==
    /\ files0 # NoFiles
    /\ \E j \in DOMAIN trace :
          /\ trace[j].key = "output"
          /\ trace[j].wrote
          /\ SummarizedIn(trace, "app")
          /\ ~SummarizedIn(trace, "test")
          /\ SummarizedIn(trace, "infra")
          /\ HasSection(files[EventPath(trace[j])], "infra")


\* C30: every categorization-result artifact a run writes is a JSON object
\* with exactly the keys app, test and infra, each holding a list of paths
C30_CategorizationShape ==
    \A j \in DOMAIN trace :
        (trace[j].key = "categorization_result" /\ trace[j].wrote) =>
            LET written == JsonLoads(files[EventPath(trace[j])])
            IN /\ written.ok
               /\ DOMAIN written.d = {"app", "test", "infra"}


====
